---- MODULE Spec2Model ----
(***************************************************************************)
(* Brainchain task executor, workflow engine and session checkpointing.   *)
(*                                                                         *)
(*   SpecExec : executor.RunSingleTask / executor.RunParallelTasks         *)
(*              (worker pool, channels, retry loop)                        *)
(*   Spec     : workflow.Engine.Run with the session checkpoint            *)
(***************************************************************************)
EXTENDS Integers, Sequences, FiniteSets, Bags, TLC

\* ------------------------------------------------------------------------
\* Bounds of the model
\* ------------------------------------------------------------------------
MaxTasks == 2
MaxWorkersBound == 2
MaxRetriesBound == 1

VARIABLES
  \* ---- executor.Executor (configuration, read-only after NewExecutor)
  maxRetries,       \* Executor.maxRetries
  maxWorkers,       \* Executor.maxWorkers
  \* ---- one RunParallelTasks call
  tasks,            \* the input batch, a sequence of Task
  taskChan,         \* buffered channel of tasks (slots of the batch)
  taskChanClosed,
  resultChan,       \* buffered channel of *TaskResult
  resultChanClosed,
  workers,          \* the worker goroutines: a bag of their local states
  dpc,              \* position of the calling goroutine in RunParallelTasks
  nextEnq,          \* loop index of "for _, task := range tasks"
  resultMap,        \* map[string]*TaskResult
  results,          \* the returned slice
  ctxCancelled,     \* ctx.Done() is closed
  \* ---- observations of a counting stub runner
  invocations,      \* per batch slot: number of adp.Run calls started
  completed,        \* batch slots in the order their results were delivered
  ret,              \* per batch slot: what RunSingleTask returned
  \* ---- workflow.Engine
  steps,            \* Engine.steps (cfg.Workflow.Steps)
  roleStep,         \* Engine.roleStep: role -> first step index (0-based)
  outputs,          \* Engine.outputs: name -> raw output
  plan,             \* Engine.plan
  sessMode,         \* session.Manager: "current" session set, or "nocurrent"
  \* ---- one Engine.Run call
  maxLoops,         \* parameter maxLoops
  currentStep,      \* local currentStep (0-based)
  visits,           \* local visits: step index -> count
  stepResults,      \* local results, the StepResults so far
  pc,               \* position in the loop of Run
  runResult,        \* the *Result returned by Run
  runNo,            \* 1 for the first run, 2 for a run after RestoreState
  resumeAt,         \* index of the step at which the previous run failed
  \* ---- session store
  wfState,          \* workflow_states row of the current session
  \* ---- session.Database and session.Manager
  now,              \* the wall clock, in ticks
  sessions,         \* table sessions: id -> row
  sessionsCreated,  \* number of ids handed out by uuid.New for sessions
  messages,         \* table messages: a set of rows
  toolInvocations,  \* table tool_invocations: a set of rows
  workflowStates,   \* table workflow_states: a set of rows
  rowsCreated,      \* number of ids handed out by uuid.New for messages
  toolsCreated,     \* number of ids handed out by uuid.New for invocations
  currentSessionID, \* Manager.currentSessionID (0 is "")
  mpc,              \* position inside a Manager call made of two statements
  lastSaved,        \* per session: arguments of its latest SaveWorkflowState
  deletedBy,        \* per deleted session: the call that deleted it, and
                    \* the number of its rows in the child tables then
  \* ---- workflow.ParsePlan and Engine.parsePlan on one text
  planIn,           \* the input: a Plan and how it is wrapped, or a raw text
  planText,         \* the text handed to the parsers
  parseOut,         \* what ParsePlan returned and Engine.plan after parsePlan
  ppc               \* "start", "text" (serialized) or "parsed"

execVars == <<maxRetries, maxWorkers, tasks, taskChan, taskChanClosed,
              resultChan, resultChanClosed, workers, dpc, nextEnq,
              resultMap, results, ctxCancelled, invocations, completed, ret>>

engineVars == <<steps, roleStep, outputs, plan, sessMode, maxLoops, currentStep,
                visits, stepResults, pc, runResult, runNo, resumeAt, wfState>>

storeVars == <<now, sessions, sessionsCreated, messages, toolInvocations,
               workflowStates, rowsCreated, toolsCreated, currentSessionID, mpc,
               lastSaved, deletedBy>>

parseVars == <<planIn, planText, parseOut, ppc>>

vars == <<execVars, engineVars, storeVars, parseVars>>

\* ------------------------------------------------------------------------
\* Configuration (config.Config as handed to NewExecutor)
\* ------------------------------------------------------------------------
\* cfg.Roles: role name -> agent
\* ("orphan" names an agent that is not configured, "scribe" an agent whose
\* command has no adapter)
CfgRoles == {"planner", "plan_validator", "implementer", "code_reviewer", "fixer",
             "orphan", "scribe"}

RoleAgent(role) ==
  CASE role = "planner"        -> "claude"
    [] role = "plan_validator" -> "codex"
    [] role = "implementer"    -> "claude"
    [] role = "code_reviewer"  -> "codex"
    [] role = "fixer"          -> "claude"
    [] role = "orphan"         -> "gemini"
    [] role = "scribe"         -> "custom"
    [] OTHER                   -> ""

\* cfg.Agents: agent name -> AgentConfig
CfgAgents == {"claude", "codex", "custom"}

\* AgentConfig.Command of a configured agent
AgentCommand(agent) ==
  CASE agent = "claude" -> "claude"
    [] agent = "codex"  -> "codex"
    [] OTHER            -> "aider"

\* ---- createAdapter, lines 213-226: nil unless the command is claude or codex
HasAdapter(agent) == AgentCommand(agent) \in {"claude", "codex"}

\* ------------------------------------------------------------------------
\* executor.TaskResult and the Adapter contract
\* ------------------------------------------------------------------------
NilResult == [nil |-> TRUE]

TaskResultOneBased(taskID, role, agent, success, output, error, retries) ==
  [TaskID |-> taskID, Role |-> role, Agent |-> agent, Success |-> success,
   Output |-> output, Error |-> error, Retries |-> retries + 1]
TaskResult(taskID, role, agent, success, output, error, retries) ==
  [TaskID |-> taskID, Role |-> role, Agent |-> agent, Success |-> success,
   Output |-> output, Error |-> error, Retries |-> retries]

\* adapter.Adapter.Run returns (*Result, error): either a transport error
\* or a Result carrying Success, Output and Error.
TransportErr == [err |-> "transport error", Success |-> FALSE, Output |-> <<>>, Error |-> ""]
AdpResult(success, output, error) ==
  [err |-> "", Success |-> success, Output |-> output, Error |-> error]

\* Outcomes the stub runner of the executor specification may produce.
ExecOutcomes ==
  { TransportErr,
    AdpResult(FALSE, <<>>, "boom"),
    AdpResult(TRUE, <<"out">>, "") }

\* ---- RunSingleTask, lines 61-75: configuration checks.  "" when the role
\* and its agent resolve, the error text otherwise.
ConfigErrorRoleOnly(role) ==
  IF role \notin CfgRoles THEN "unknown role: " \o role ELSE ""
ConfigError(role) ==
  IF role \notin CfgRoles THEN "unknown role: " \o role
  ELSE IF RoleAgent(role) \notin CfgAgents THEN "unknown agent: " \o RoleAgent(role)
  ELSE IF ~HasAdapter(RoleAgent(role))
    THEN "failed to create adapter for agent: " \o RoleAgent(role)
  ELSE ""

\* ---- RunSingleTask, lines 80-81 and 83: locals of the retry loop.
\* st.done = TRUE once RunSingleTask has returned (st.result, st.err).
RetryInit ==
  [attempt |-> 0, result |-> NilResult, lastErr |-> "", done |-> FALSE, err |-> ""]

\* ---- RunSingleTask, lines 119-130: after the loop.
AfterLoop(st, taskID, role, N) ==
  IF st.result # NilResult
    THEN [st EXCEPT !.done = TRUE]
    ELSE [st EXCEPT !.done = TRUE,
                    !.result = TaskResult(taskID, role, RoleAgent(role), FALSE,
                                          <<>>, st.lastErr, N)]

\* ---- RunSingleTask, line 83: "attempt++" and the loop condition.
NextAttempt(st, taskID, role, N) ==
  LET st2 == [st EXCEPT !.attempt = st.attempt + 1]
  IN IF st2.attempt <= N THEN st2 ELSE AfterLoop(st2, taskID, role, N)

\* ---- RunSingleTask, lines 93-117: one adp.Run has returned o.
OnAdapterReturnNoStop(st, o, taskID, role, N) ==
  IF o.err # ""
    THEN NextAttempt([st EXCEPT !.lastErr = o.err], taskID, role, N)
    ELSE NextAttempt([st EXCEPT !.result = TaskResult(taskID, role, RoleAgent(role),
                                              o.Success, o.Output, o.Error, st.attempt),
                                !.lastErr = o.Error],
                     taskID, role, N)
OnAdapterReturn(st, o, taskID, role, N) ==
  IF o.err # ""
    THEN NextAttempt([st EXCEPT !.lastErr = o.err], taskID, role, N)
    ELSE LET r == TaskResult(taskID, role, RoleAgent(role), o.Success,
                             o.Output, o.Error, st.attempt)
         IN IF o.Success
              THEN [st EXCEPT !.result = r, !.done = TRUE]
              ELSE NextAttempt([st EXCEPT !.result = r, !.lastErr = o.Error],
                               taskID, role, N)

\* ---- RunSingleTask, lines 85-87: ctx.Done() wins the select.
OnCtxDone(st) ==
  [st EXCEPT !.result = NilResult, !.err = "context canceled", !.done = TRUE]

\* ---- RunParallelTasks, lines 153-160: the worker turns an error return
\* into a failed result.
WrapReturn(result, err, task) ==
  IF err # ""
    THEN [TaskID |-> task.ID, Role |-> task.Role, Agent |-> "", Success |-> FALSE,
          Output |-> <<>>, Error |-> err, Retries |-> 0]
    ELSE result

\* ---- RunParallelTasks, lines 138-141.
NumWorkersAll(mw, k) == k
NumWorkers(mw, k) == IF k < mw THEN k ELSE mw

\* ---- RunParallelTasks, lines 181-193.
NotFound(task) ==
  [TaskID |-> task.ID, Role |-> task.Role, Agent |-> "", Success |-> FALSE,
   Output |-> <<>>, Error |-> "result not found", Retries |-> 0]

BuildResultsReversed(ts, rm) ==
  [i \in 1..Len(ts) |->
     LET t == ts[Len(ts) + 1 - i]
     IN IF t.ID \in DOMAIN rm THEN rm[t.ID] ELSE NotFound(t)]
BuildResults(ts, rm) ==
  [i \in 1..Len(ts) |->
     IF ts[i].ID \in DOMAIN rm THEN rm[ts[i].ID] ELSE NotFound(ts[i])]

\* resultMap[result.TaskID] = result, line 178
MapPutFailing(rm, r) ==
  [id \in (DOMAIN rm) \cup {r.TaskID} |->
     IF id = r.TaskID THEN r
     ELSE IF r.Success THEN rm[id] ELSE [rm[id] EXCEPT !.Success = FALSE]]
MapPut(rm, r) ==
  [id \in (DOMAIN rm) \cup {r.TaskID} |-> IF id = r.TaskID THEN r ELSE rm[id]]

EmptyMap == [x \in {} |-> NilResult]

\* ------------------------------------------------------------------------
\* Inputs of the executor specification
\* ------------------------------------------------------------------------
DefaultID(i) == CASE i = 1 -> "t1" [] i = 2 -> "t2" [] i = 3 -> "t3"
                  [] i = 4 -> "t4" [] OTHER -> "t5"

\* Batches of up to MaxTasks tasks.  Task i carries its positional id, except
\* that at most one task (dup) repeats the id of the first one; at most one
\* task (ghost) names a role that does not resolve to an adapter: a role
\* that is not configured ("ghost"), a role whose agent is not configured
\* ("orphan"), or a role whose agent has no adapter ("scribe").
BadRoles == {"ghost", "orphan", "scribe"}

Batch(k, dup, ghost, bad) ==
  [i \in 1..k |->
     [ID   |-> IF i = dup THEN DefaultID(1) ELSE DefaultID(i),
      Role |-> IF i = ghost THEN bad ELSE "implementer"]]

Batches ==
  { Batch(k, dup, ghost, bad) :
      k \in 0..MaxTasks, dup \in {0} \cup (2..MaxTasks), ghost \in 0..MaxTasks,
      bad \in BadRoles }

DistinctIDs(ts) ==
  \A i, j \in 1..Len(ts) : i # j => ts[i].ID # ts[j].ID

NoRet == [set |-> FALSE, result |-> NilResult, err |-> ""]

\* ------------------------------------------------------------------------
\* The session store before any call (NewDatabase, database.go lines 68-92;
\* NewManager, lines 439-458): empty tables, no current session
\* ------------------------------------------------------------------------
ManagerIdle == [op |-> "idle", sid |-> 0, arg |-> ""]

\* no text has been handed to the plan parsers
ParseIdle ==
  /\ planIn = [kind |-> "none"]
  /\ planText = <<>>
  /\ parseOut = [set |-> FALSE]
  /\ ppc = "idle"

StoreNew ==
  /\ now = 0
  /\ sessions = [s \in {} |-> 0]
  /\ sessionsCreated = 0
  /\ messages = {}
  /\ toolInvocations = {}
  /\ workflowStates = {}
  /\ rowsCreated = 0
  /\ toolsCreated = 0
  /\ currentSessionID = 0
  /\ mpc = ManagerIdle
  /\ lastSaved = [s \in {} |-> 0]
  /\ deletedBy = [s \in {} |-> ""]

InitExec ==
  /\ maxRetries \in 0..MaxRetriesBound
  /\ maxWorkers \in 0..MaxWorkersBound
  /\ tasks \in Batches
  /\ taskChan = <<>>
  /\ taskChanClosed = FALSE
  /\ resultChan = <<>>
  /\ resultChanClosed = FALSE
  /\ workers = EmptyBag
  /\ dpc = "start"
  /\ nextEnq = 1
  /\ resultMap = EmptyMap
  /\ results = <<>>
  /\ ctxCancelled = FALSE
  /\ invocations = [i \in 1..Len(tasks) |-> 0]
  /\ completed = <<>>
  /\ ret = [i \in 1..Len(tasks) |-> NoRet]
  /\ steps = <<>>
  /\ roleStep = [r \in {} |-> 0]
  /\ outputs = [n \in {} |-> <<>>]
  /\ plan = [nil |-> TRUE, hasTasks |-> FALSE, tasks |-> <<>>]
  /\ sessMode = "nocurrent"
  /\ maxLoops = 0
  /\ currentStep = 0
  /\ visits = <<>>
  /\ stepResults = <<>>
  /\ pc = "idle"
  /\ runResult = [set |-> FALSE]
  /\ runNo = 1
  /\ resumeAt = 0
  /\ wfState = [present |-> FALSE]
  /\ StoreNew
  /\ ParseIdle

\* ------------------------------------------------------------------------
\* RunParallelTasks: the calling goroutine
\* ------------------------------------------------------------------------
\* A worker goroutine between two tasks / after its range loop has ended.
IdleWorker == [pc |-> "recv", slot |-> 0, st |-> RetryInit]
ExitedWorker == [pc |-> "exited", slot |-> 0, st |-> RetryInit]

\* n goroutines started by the loop of lines 147-164
PoolAtLeastOne(n) == [x \in {IdleWorker} |-> IF n > 0 THEN n ELSE 1]
Pool(n) == [x \in (IF n > 0 THEN {IdleWorker} ELSE {}) |-> n]

\* worker wr moves to local state new
Move(wr, new) == (workers (-) SetToBag({wr})) (+) SetToBag({new})

\* lines 134-164: empty batch returns nil; otherwise size the pool, make the
\* channels and start the workers.
ParStart ==
  /\ dpc = "start"
  /\ IF Len(tasks) = 0
       THEN /\ dpc' = "returned"
            /\ UNCHANGED workers
       ELSE /\ dpc' = "enqueue"
            /\ workers' = Pool(NumWorkers(maxWorkers, Len(tasks)))
  /\ UNCHANGED <<maxRetries, maxWorkers, tasks, taskChan, taskChanClosed,
                 resultChan, resultChanClosed, nextEnq, resultMap, results,
                 ctxCancelled, invocations, ret, completed,
                 engineVars, storeVars, parseVars>>

\* lines 166-168: taskChan <- task (capacity len(tasks))
ParEnqueueFirstOnly ==
  /\ dpc = "enqueue"
  /\ nextEnq <= Len(tasks)
  /\ Len(taskChan) < Len(tasks)
  /\ taskChan' = Append(taskChan, 1)
  /\ nextEnq' = nextEnq + 1
  /\ UNCHANGED <<maxRetries, maxWorkers, tasks, taskChanClosed, resultChan,
                 resultChanClosed, workers, dpc, resultMap, results,
                 ctxCancelled, invocations, ret, completed,
                 engineVars, storeVars, parseVars>>
ParEnqueue ==
  /\ dpc = "enqueue"
  /\ nextEnq <= Len(tasks)
  /\ Len(taskChan) < Len(tasks)
  /\ taskChan' = Append(taskChan, nextEnq)
  /\ nextEnq' = nextEnq + 1
  /\ UNCHANGED <<maxRetries, maxWorkers, tasks, taskChanClosed, resultChan,
                 resultChanClosed, workers, dpc, resultMap, results,
                 ctxCancelled, invocations, ret, completed,
                 engineVars, storeVars, parseVars>>

\* line 169: close(taskChan); lines 171-174 start the closer goroutine
ParCloseForgotten ==
  /\ dpc = "enqueue"
  /\ nextEnq > Len(tasks)
  /\ dpc' = "collect"
  /\ UNCHANGED <<maxRetries, maxWorkers, tasks, taskChan, taskChanClosed,
                 resultChan, resultChanClosed, workers, nextEnq, resultMap,
                 results, ctxCancelled, invocations, ret, completed,
                 engineVars, storeVars, parseVars>>
ParClose ==
  /\ dpc = "enqueue"
  /\ nextEnq > Len(tasks)
  /\ taskChanClosed' = TRUE
  /\ dpc' = "collect"
  /\ UNCHANGED <<maxRetries, maxWorkers, tasks, taskChan, resultChan,
                 resultChanClosed, workers, nextEnq, resultMap, results,
                 ctxCancelled, invocations, ret, completed,
                 engineVars, storeVars, parseVars>>

\* line 172: wg.Wait() returns once every worker has run its deferred
\* wg.Done() (line 150), i.e. has left the range loop of line 151
WaitGroupZeroEarly(ws) == \E wr \in BagToSet(ws) : wr.pc = "exited"
WaitGroupZero(ws) == \A wr \in BagToSet(ws) : wr.pc = "exited"

\* lines 171-174: wg.Wait(); close(resultChan)
CloserClose ==
  /\ dpc = "collect"
  /\ ~resultChanClosed
  /\ WaitGroupZero(workers)
  /\ resultChanClosed' = TRUE
  /\ UNCHANGED <<maxRetries, maxWorkers, tasks, taskChan, taskChanClosed,
                 resultChan, workers, dpc, nextEnq, resultMap, results,
                 ctxCancelled, invocations, ret, completed,
                 engineVars, storeVars, parseVars>>

\* lines 177-179: for result := range resultChan
ParCollect ==
  /\ dpc = "collect"
  /\ resultChan # <<>>
  /\ resultMap' = MapPut(resultMap, Head(resultChan))
  /\ resultChan' = Tail(resultChan)
  /\ UNCHANGED <<maxRetries, maxWorkers, tasks, taskChan, taskChanClosed,
                 resultChanClosed, workers, dpc, nextEnq, results,
                 ctxCancelled, invocations, ret, completed,
                 engineVars, storeVars, parseVars>>

\* lines 181-195: the range loop ends, build the result slice and return
ParReturn ==
  /\ dpc = "collect"
  /\ resultChan = <<>>
  /\ resultChanClosed
  /\ results' = BuildResults(tasks, resultMap)
  /\ dpc' = "returned"
  /\ UNCHANGED <<maxRetries, maxWorkers, tasks, taskChan, taskChanClosed,
                 resultChan, resultChanClosed, workers, nextEnq, resultMap,
                 ctxCancelled, invocations, ret, completed,
                 engineVars, storeVars, parseVars>>

\* ------------------------------------------------------------------------
\* RunParallelTasks: worker goroutines, each running RunSingleTask
\* ------------------------------------------------------------------------
\* The RunSingleTask call of worker wr is in local state st.  If it has
\* returned, record what it returned and go on to deliver the result;
\* if it is about to call adp.Run for the first attempt, call it (line 93);
\* otherwise wait in the select of lines 85-89.
Continue(wr, slot, st) ==
  IF st.done
    THEN /\ workers' = Move(wr, [pc |-> "send", slot |-> slot, st |-> st])
         /\ ret' = [ret EXCEPT ![slot] =
                      [set |-> TRUE, result |-> st.result, err |-> st.err]]
         /\ UNCHANGED invocations
    ELSE IF st.attempt = 0
      THEN /\ workers' = Move(wr, [pc |-> "running", slot |-> slot, st |-> st])
           /\ invocations' = [invocations EXCEPT ![slot] = @ + 1]
           /\ UNCHANGED ret
      ELSE /\ workers' = Move(wr, [pc |-> "wait", slot |-> slot, st |-> st])
           /\ UNCHANGED <<ret, invocations>>

\* line 151 receive, line 152 call, lines 62-75 configuration checks,
\* line 83 loop entry
WorkerRecv(wr) ==
  /\ wr.pc = "recv"
  /\ taskChan # <<>>
  /\ LET slot == Head(taskChan)
         cerr == ConfigError(tasks[slot].Role)
     IN /\ taskChan' = Tail(taskChan)
        /\ IF cerr # ""
             THEN Continue(wr, slot, [RetryInit EXCEPT !.done = TRUE, !.err = cerr])
             ELSE IF 0 <= maxRetries
                    THEN Continue(wr, slot, RetryInit)
                    ELSE Continue(wr, slot,
                           AfterLoop(RetryInit, tasks[slot].ID, tasks[slot].Role, maxRetries))
  /\ UNCHANGED <<maxRetries, maxWorkers, tasks, taskChanClosed, resultChan,
                 resultChanClosed, dpc, nextEnq, resultMap, results,
                 ctxCancelled, completed,
                 engineVars, storeVars, parseVars>>

\* line 151: the range loop ends when taskChan is closed and drained
WorkerExit(wr) ==
  /\ wr.pc = "recv"
  /\ taskChan = <<>>
  /\ taskChanClosed
  /\ workers' = Move(wr, ExitedWorker)
  /\ UNCHANGED <<maxRetries, maxWorkers, tasks, taskChan, taskChanClosed,
                 resultChan, resultChanClosed, dpc, nextEnq, resultMap,
                 results, ctxCancelled, invocations, ret, completed,
                 engineVars, storeVars, parseVars>>

\* lines 88-93: the retry delay has elapsed, call adp.Run again
WorkerRun(wr) ==
  /\ wr.pc = "wait"
  /\ workers' = Move(wr, [wr EXCEPT !.pc = "running"])
  /\ invocations' = [invocations EXCEPT ![wr.slot] = @ + 1]
  /\ UNCHANGED <<maxRetries, maxWorkers, tasks, taskChan, taskChanClosed,
                 resultChan, resultChanClosed, dpc, nextEnq, resultMap,
                 results, ctxCancelled, ret, completed,
                 engineVars, storeVars, parseVars>>

\* lines 85-87: the context is done while waiting between attempts
WorkerCtxDone(wr) ==
  /\ wr.pc = "wait"
  /\ ctxCancelled
  /\ Continue(wr, wr.slot, OnCtxDone(wr.st))
  /\ UNCHANGED <<maxRetries, maxWorkers, tasks, taskChan, taskChanClosed,
                 resultChan, resultChanClosed, dpc, nextEnq, resultMap,
                 results, ctxCancelled, completed,
                 engineVars, storeVars, parseVars>>

\* lines 93-117: adp.Run returns
WorkerAdapterReturn(wr) ==
  /\ wr.pc = "running"
  /\ \E o \in ExecOutcomes :
       Continue(wr, wr.slot, OnAdapterReturn(wr.st, o, tasks[wr.slot].ID,
                                             tasks[wr.slot].Role, maxRetries))
  /\ UNCHANGED <<maxRetries, maxWorkers, tasks, taskChan, taskChanClosed,
                 resultChan, resultChanClosed, dpc, nextEnq, resultMap,
                 results, ctxCancelled, completed,
                 engineVars, storeVars, parseVars>>

\* line 161: resultChan <- result (capacity len(tasks))
WorkerSend(wr) ==
  /\ wr.pc = "send"
  /\ Len(resultChan) < Len(tasks)
  /\ resultChan' = Append(resultChan,
                      WrapReturn(wr.st.result, wr.st.err, tasks[wr.slot]))
  /\ workers' = Move(wr, IdleWorker)
  /\ completed' = Append(completed, wr.slot)
  /\ UNCHANGED <<maxRetries, maxWorkers, tasks, taskChan, taskChanClosed,
                 resultChanClosed, dpc, nextEnq, resultMap, results,
                 ctxCancelled, invocations, ret,
                 engineVars, storeVars, parseVars>>

\* the caller cancels the context handed to the call
CancelCtx ==
  /\ ~ctxCancelled
  /\ dpc \notin {"start", "returned"}
  /\ ctxCancelled' = TRUE
  /\ UNCHANGED <<maxRetries, maxWorkers, tasks, taskChan, taskChanClosed,
                 resultChan, resultChanClosed, workers, dpc, nextEnq,
                 resultMap, results, invocations, ret, completed,
                 engineVars, storeVars, parseVars>>

NextExec ==
  \/ ParStart
  \/ ParEnqueue
  \/ ParClose
  \/ CloserClose
  \/ ParCollect
  \/ ParReturn
  \/ CancelCtx
  \/ \E wr \in BagToSet(workers) : WorkerRecv(wr)
  \/ \E wr \in BagToSet(workers) : WorkerExit(wr)
  \/ \E wr \in BagToSet(workers) : WorkerRun(wr)
  \/ \E wr \in BagToSet(workers) : WorkerCtxDone(wr)
  \/ \E wr \in BagToSet(workers) : WorkerAdapterReturn(wr)
  \/ \E wr \in BagToSet(workers) : WorkerSend(wr)

SpecExec == InitExec /\ [][NextExec]_vars


\* ========================================================================
\* Workflow engine (cmd/chat/internal/workflow/workflow.go)
\* ========================================================================
MaxSteps == 2
MaxLoopsBound == 2

\* ------------------------------------------------------------------------
\* Agent output text.  An output is a sequence of tokens; a JSON document
\* is one token.  The tables below give, per token, what the code reads
\* from it: its lower-case form, the substrings checkVerdict searches for,
\* and (for a JSON document) the value json.Unmarshal yields.
\* ------------------------------------------------------------------------
\* the token for a code fence (three backquotes)
Fence == "<fence>"
LangTag == "json"
JoinSep == "---"

NilPlan == [nil |-> TRUE, hasTasks |-> FALSE, tasks |-> <<>>]
PlanObj(hasTasks, ts) == [nil |-> FALSE, hasTasks |-> hasTasks, tasks |-> ts]
Entry(id) == [obj |-> TRUE, id |-> id]

\* json.Unmarshal([]byte(tok), &plan) with plan a map[string]any
JSONDoc(tok) ==
  CASE tok = "{\"tasks\":[{\"id\":\"t1\"},{\"id\":\"t2\"}]}"
         -> [ok |-> TRUE, v |-> PlanObj(TRUE, <<Entry("t1"), Entry("t2")>>)]
    [] tok = "{\"tasks\":[]}"
         -> [ok |-> TRUE, v |-> PlanObj(TRUE, <<>>)]
    [] tok = "{\"verdict\":\"needs_revision\"}"
         -> [ok |-> TRUE, v |-> PlanObj(FALSE, <<>>)]
    [] tok = "{\"verdict\":\"approved\"}"
         -> [ok |-> TRUE, v |-> PlanObj(FALSE, <<>>)]
    [] tok = "null"
         -> [ok |-> TRUE, v |-> NilPlan]
    [] OTHER
         -> [ok |-> FALSE, v |-> NilPlan]

\* strings.ToLower on one token
ToLowerTok(tok) ==
  CASE tok = "LGTM"     -> "lgtm"
    [] tok = "APPROVED" -> "approved"
    [] tok = "FAILED"   -> "failed"
    [] OTHER            -> tok

ToLower(out) == [i \in 1..Len(out) |-> ToLowerTok(out[i])]

\* the search patterns of checkVerdict that occur in a (lower-case) token
Patterns(tok) ==
  CASE tok = "{\"verdict\":\"needs_revision\"}"
         -> {"\"verdict\"", "\"needs_revision\"", "needs_revision"}
    [] tok = "{\"verdict\":\"approved\"}"
         -> {"\"verdict\"", "\"approved\"", "approved"}
    [] tok \in {"approved", "passed", "needs_revision", "failed"}
         -> {tok}
    [] tok = "{\"verdict\":\"unclear\"}"
         -> {"\"verdict\""}
    [] tok = "status: \"failed\""
         -> {"\"failed\"", "failed"}
    [] OTHER -> {}

\* strings.Contains(out, pat)
Contains(out, pat) == \E i \in 1..Len(out) : pat \in Patterns(out[i])

\* ---- checkVerdict, lines 423-443
CheckVerdictStrict(output) ==
  LET lower == ToLower(output)
  IN Contains(lower, "approved") \/ Contains(lower, "passed")
CheckVerdictRejectFirst(output) ==
  LET lower == ToLower(output)
  IN IF /\ Contains(lower, "\"verdict\"")
        /\ (Contains(lower, "\"approved\"") \/ Contains(lower, "\"passed\""))
       THEN TRUE
     ELSE IF /\ Contains(lower, "\"verdict\"")
             /\ (Contains(lower, "\"needs_revision\"") \/ Contains(lower, "\"failed\""))
       THEN FALSE
     ELSE IF Contains(lower, "needs_revision") \/ Contains(lower, "failed")
       THEN FALSE
     ELSE TRUE
CheckVerdict(output) ==
  LET lower == ToLower(output)
  IN IF /\ Contains(lower, "\"verdict\"")
        /\ (Contains(lower, "\"approved\"") \/ Contains(lower, "\"passed\""))
       THEN TRUE
     ELSE IF /\ Contains(lower, "\"verdict\"")
             /\ (Contains(lower, "\"needs_revision\"") \/ Contains(lower, "\"failed\""))
       THEN FALSE
     ELSE IF Contains(lower, "approved") \/ Contains(lower, "passed")
       THEN TRUE
     ELSE IF Contains(lower, "needs_revision") \/ Contains(lower, "failed")
       THEN FALSE
     ELSE TRUE

\* ---- parsePlan, lines 348-356: the text between the first fence (and an
\* optional language tag) and the next fence; the whole output when there
\* are not two fences.
FencePositions(out) == {i \in 1..Len(out) : out[i] = Fence}

SetMin(S) == CHOOSE x \in S : \A y \in S : x <= y

ExtractJSON(out) ==
  LET F == FencePositions(out)
  IN IF Cardinality(F) < 2 THEN out
     ELSE LET a == SetMin(F)
              b == SetMin(F \ {a})
              from == IF a + 1 < b /\ out[a + 1] = LangTag THEN a + 2 ELSE a + 1
          IN SubSeq(out, from, b - 1)

\* ---- parsePlan, lines 358-361: json.Unmarshal of the extracted text
Unmarshal(text) ==
  IF Len(text) = 1 THEN JSONDoc(text[1]) ELSE [ok |-> FALSE, v |-> NilPlan]

\* ---- parsePlan: the engine's plan after parsePlan(output)
ParsePlan(old, output) ==
  LET u == Unmarshal(ExtractJSON(output))
  IN IF u.ok THEN u.v ELSE old

\* ------------------------------------------------------------------------
\* Workflow definitions (config.WorkflowStep)
\* ------------------------------------------------------------------------
Step(role, output, perTask, onFail, onSuccess) ==
  [Role |-> role, Output |-> output, PerTask |-> perTask,
   OnFail |-> onFail, OnSuccess |-> onSuccess]

StepMenu ==
  { Step("planner", "plan.json", FALSE, "", ""),
    Step("planner", "notes", FALSE, "", "goto:plan_validator"),
    Step("plan_validator", "", FALSE, "goto:planner", ""),
    Step("plan_validator", "", FALSE, "goto:plan_validator", ""),
    Step("implementer", "", TRUE, "", ""),
    Step("implementer", "final", TRUE, "planner", "") }

Workflows == UNION { [1..n -> StepMenu] : n \in 1..MaxSteps }

\* the documented workflow (.sisyphus/plans/brainchain-orchestrator.md)
DocWorkflow ==
  <<Step("planner", "plan.json", FALSE, "", ""),
    Step("plan_validator", "", FALSE, "goto:planner", ""),
    Step("implementer", "", TRUE, "", ""),
    Step("code_reviewer", "", TRUE, "goto:fixer", ""),
    Step("fixer", "", FALSE, "", "goto:code_reviewer")>>

\* a gate role run per task; a step whose role is not configured, whose
\* agent is not configured, or whose agent has no adapter
GateFanOut ==
  <<Step("planner", "plan.json", FALSE, "", ""),
    Step("plan_validator", "", TRUE, "goto:planner", "")>>

BadRoleSecond(role) ==
  <<Step("planner", "plan.json", FALSE, "", ""),
    Step(role, "", FALSE, "", "")>>

DocWorkflows ==
  {DocWorkflow, GateFanOut} \cup {BadRoleSecond(r) : r \in BadRoles}

GateRoles == {"plan_validator", "code_reviewer"}

\* ---- New, lines 83-92: first-occurrence map role -> step index
RoleStepLast(ss) ==
  [r \in {ss[i].Role : i \in 1..Len(ss)} |->
     (CHOOSE i \in 1..Len(ss) :
        ss[i].Role = r /\ \A j \in 1..Len(ss) : ss[j].Role = r => j <= i) - 1]
RoleStep(ss) ==
  [r \in {ss[i].Role : i \in 1..Len(ss)} |->
     (CHOOSE i \in 1..Len(ss) :
        ss[i].Role = r /\ \A j \in 1..Len(ss) : ss[j].Role = r => i <= j) - 1]

\* ---- resolveJump, lines 364-373.  "goto:<role>" is kept as the directive
\* text; the role it names is given by the table.
GotoRole(target) ==
  CASE target = "goto:planner"        -> "planner"
    [] target = "goto:plan_validator" -> "plan_validator"
    [] target = "goto:implementer"    -> "implementer"
    [] target = "goto:code_reviewer"  -> "code_reviewer"
    [] target = "goto:fixer"          -> "fixer"
    [] target = "goto:nowhere"        -> "nowhere"
    [] OTHER                          -> ""

HasGotoPrefix(target) == GotoRole(target) # ""

ResolveJump(target) ==
  IF ~HasGotoPrefix(target) THEN [ok |-> FALSE, idx |-> 0]
  ELSE IF GotoRole(target) \in DOMAIN roleStep
    THEN [ok |-> TRUE, idx |-> roleStep[GotoRole(target)]]
    ELSE [ok |-> FALSE, idx |-> 0]

\* ------------------------------------------------------------------------
\* The executor as the engine calls it
\* ------------------------------------------------------------------------
AgentOutputs ==
  { <<"Here", Fence, LangTag, "{\"tasks\":[{\"id\":\"t1\"},{\"id\":\"t2\"}]}", Fence>>,
    <<"{\"tasks\":[]}">>,
    <<"LGTM">>,
    <<"{\"verdict\":\"approved\"}">>,
    <<"{\"verdict\":\"needs_revision\"}">> }

EngineOutcomes ==
  { TransportErr, AdpResult(FALSE, <<>>, "boom") }
    \cup { AdpResult(TRUE, o, "") : o \in AgentOutputs }

FanOutcomes ==
  { AdpResult(FALSE, <<>>, "boom"),
    AdpResult(TRUE, <<"LGTM">>, ""),
    AdpResult(TRUE, <<"{\"verdict\":\"approved\"}">>, ""),
    AdpResult(TRUE, <<"{\"verdict\":\"needs_revision\"}">>, "") }

\* what the runner returns on attempts 0..N of one RunSingleTask call
Scripts(N) == [1..(N + 1) -> EngineOutcomes]
ConstScripts(N) == { [i \in 1..(N + 1) |-> o] : o \in FanOutcomes }

\* ---- RunSingleTask, lines 61-131, run to completion on the runner
\* outcomes outs (context not cancelled)
RECURSIVE RunAttempts(_, _, _, _, _)
RunAttempts(st, outs, taskID, role, N) ==
  IF st.done \/ outs = <<>> THEN st
  ELSE RunAttempts(OnAdapterReturn(st, Head(outs), taskID, role, N),
                   Tail(outs), taskID, role, N)

RunSingleTask(role, taskID, outs, N) ==
  IF ConfigError(role) # ""
    THEN [RetryInit EXCEPT !.done = TRUE, !.err = ConfigError(role)]
    ELSE RunAttempts(RetryInit, outs, taskID, role, N)

\* ---- BaseAdapter.Run, part_004 lines 107-145, under a context that is
\* already cancelled: the command does not run, Run reports Success = false
\* with the (empty) stderr text
CancelledOutcome == AdpResult(FALSE, <<>>, "")

\* ---- RunSingleTask under a context that is already cancelled: attempt 0
\* calls the adapter, the select before attempt 1 takes ctx.Done()
RunSingleTaskCancelled(role, taskID, N) ==
  IF ConfigError(role) # ""
    THEN [RetryInit EXCEPT !.done = TRUE, !.err = ConfigError(role)]
    ELSE LET st == OnAdapterReturn(RetryInit, CancelledOutcome, taskID, role, N)
         IN IF st.done THEN st ELSE OnCtxDone(st)

RunSingleTaskCtx(role, taskID, outs, N, cancelled) ==
  IF cancelled THEN RunSingleTaskCancelled(role, taskID, N)
  ELSE RunSingleTask(role, taskID, outs, N)

\* ---- RunParallelTasks, lines 133-196, run to completion: rets[i] is what
\* RunSingleTask returned for task i, order the order of delivery
RECURSIVE Collect(_, _, _, _)
Collect(rm, order, ts, rets) ==
  IF order = <<>> THEN rm
  ELSE LET i == Head(order)
       IN Collect(MapPut(rm, WrapReturn(rets[i].result, rets[i].err, ts[i])),
                  Tail(order), ts, rets)

Perms(k) == { f \in [1..k -> 1..k] : \A i, j \in 1..k : i # j => f[i] # f[j] }

RunParallelTasks(ts, rets, order, mw) ==
  IF Len(ts) = 0 THEN <<>>
  ELSE IF NumWorkers(mw, Len(ts)) <= 0 THEN BuildResults(ts, EmptyMap)
  ELSE BuildResults(ts, Collect(EmptyMap, order, ts, rets))

\* ------------------------------------------------------------------------
\* StepResult, Result and the checkpoint
\* ------------------------------------------------------------------------
StepResult(idx, role, success, output, error, taskResults) ==
  [StepIndex |-> idx, Role |-> role, Success |-> success, Output |-> output,
   Error |-> error, TaskResults |-> taskResults, JumpTarget |-> ""]

NoResult == [set |-> FALSE, Success |-> FALSE, StepsCompleted |-> 0, TotalSteps |-> 0,
             StepResults |-> <<>>, FinalOutput |-> <<>>, Error |-> ""]

ResultCountsSuccesses(success, srs, final, error) ==
  [set |-> TRUE, Success |-> success,
   StepsCompleted |-> Cardinality({i \in DOMAIN srs : srs[i].Success}),
   TotalSteps |-> Len(steps), StepResults |-> srs, FinalOutput |-> final,
   Error |-> error]
Result(success, srs, final, error) ==
  [set |-> TRUE, Success |-> success, StepsCompleted |-> Len(srs),
   TotalSteps |-> Len(steps), StepResults |-> srs, FinalOutput |-> final,
   Error |-> error]

\* ---- TaskResult.ToMap, part_009 lines 24-35
TaskToMap(r) ==
  [id |-> r.TaskID, role |-> r.Role, agent |-> r.Agent, success |-> r.Success,
   output |-> r.Output, error |-> r.Error, retries |-> r.Retries]

\* ---- StepResult.ToMap, lines 27-42
StepToMap(r) ==
  [step_index |-> r.StepIndex, role |-> r.Role, success |-> r.Success,
   output |-> r.Output, error |-> r.Error,
   task_results |-> [i \in 1..Len(r.TaskResults) |-> TaskToMap(r.TaskResults[i])],
   jump_target |-> r.JumpTarget]

\* ---- Database.SaveWorkflowState, database.go lines 310-320: the row as
\* stored (plan marshalled: "null" for a nil map)
NoRow == [present |-> FALSE, CurrentStep |-> 0, StepResults |-> <<>>,
          PlanNull |-> TRUE, Plan |-> NilPlan, Outputs |-> [n \in {} |-> <<>>]]

Row(cur, stepMaps, pl, outs) ==
  [present |-> TRUE, CurrentStep |-> cur, StepResults |-> stepMaps,
   PlanNull |-> pl.nil, Plan |-> pl, Outputs |-> outs]

\* ---- Database.GetWorkflowState, database.go lines 322-344: Plan stays nil
\* when the stored JSON is "null"
RowPlan(row) == IF row.PlanNull THEN NilPlan ELSE row.Plan

\* ---- Engine.saveState, lines 375-386, with Manager.SaveWorkflowState,
\* database.go lines 696-721: the row after the call
SaveStateOnSuccess(cur, srs) ==
  IF sessMode = "current" /\ srs[Len(srs)].Success
    THEN Row(cur, [i \in 1..Len(srs) |-> StepToMap(srs[i])], plan, outputs)
    ELSE wfState
SaveStateAlways(cur, srs) ==
  Row(cur, [i \in 1..Len(srs) |-> StepToMap(srs[i])], plan, outputs)
SaveState(cur, srs) ==
  IF sessMode = "current"
    THEN Row(cur, [i \in 1..Len(srs) |-> StepToMap(srs[i])], plan, outputs)
    ELSE wfState

\* outputs[name] = value
OutPut(m, name, value) ==
  [n \in (DOMAIN m) \cup {name} |-> IF n = name THEN value ELSE m[n]]

OutGet(m, name) == IF name \in DOMAIN m THEN m[name] ELSE <<>>

InitialPrompt == <<"request">>

\* ---- Run, lines 110-116: a run starts
RunStart(outs) == OutPut(outs, "initial_prompt", InitialPrompt)

\* ------------------------------------------------------------------------
\* executeStep and its parts, as functions of what the executor returns
\* ------------------------------------------------------------------------
\* ---- executeSingle, lines 196-222; ret is RunSingleTask's return
ExecuteSingle(idx, step, r) ==
  IF r.err # ""
    THEN StepResult(idx, step.Role, FALSE, <<>>, r.err, <<>>)
    ELSE LET tr == r.result
             success == IF tr.Success /\ step.Role \in GateRoles
                          THEN CheckVerdict(tr.Output)
                          ELSE tr.Success
         IN StepResult(idx, step.Role, success, tr.Output, tr.Error, <<tr>>)

\* ---- executePerTask, lines 225-233
PlanTasksOK(pl) == pl.hasTasks /\ Len(pl.tasks) > 0

\* ---- executePerTask, lines 235-251: the batch built from the plan
TaskNo(i) == "task" \o ToString(i)

RECURSIVE BuildExecTasks(_, _, _)
BuildExecTasks(entries, i, role) ==
  IF i > Len(entries) THEN <<>>
  ELSE IF ~entries[i].obj THEN BuildExecTasks(entries, i + 1, role)
  ELSE <<[ID |-> IF entries[i].id = "" THEN TaskNo(i) ELSE entries[i].id,
          Role |-> role]>> \o BuildExecTasks(entries, i + 1, role)

\* ---- executePerTask, lines 255-268 and 274-275: strings.Join
RECURSIVE JoinOutputs(_)
JoinOutputs(rs) ==
  IF rs = <<>> THEN <<>>
  ELSE LET rest == JoinOutputs(Tail(rs))
       IN IF Head(rs).Output = <<>> THEN rest
          ELSE IF rest = <<>> THEN Head(rs).Output
          ELSE Head(rs).Output \o <<JoinSep>> \o rest

RECURSIVE JoinErrors(_)
JoinErrors(rs) ==
  IF rs = <<>> THEN ""
  ELSE LET rest == JoinErrors(Tail(rs))
       IN IF Head(rs).Success \/ Head(rs).Error = "" THEN rest
          ELSE IF rest = "" THEN Head(rs).Error
          ELSE Head(rs).Error \o "; " \o rest

AllSuccess(rs) == \A i \in 1..Len(rs) : rs[i].Success

\* ---- executePerTask, lines 253-277; rs is RunParallelTasks' return
ExecutePerTask(idx, step, rs) ==
  StepResult(idx, step.Role, AllSuccess(rs), JoinOutputs(rs), JoinErrors(rs), rs)

NoTasksInPlan(idx, step) ==
  StepResult(idx, step.Role, FALSE, <<>>, "no tasks in plan", <<>>)

\* ---- executeStep, line 172: which branch a step takes
FanOut(step, pl) == step.PerTask /\ ~pl.nil

\* ---- executeStep, lines 187-191
JumpTargetOnFailOnly(step, r) ==
  IF ~r.Success /\ step.OnFail # "" THEN step.OnFail ELSE ""
JumpTargetOf(step, r) ==
  IF ~r.Success /\ step.OnFail # "" THEN step.OnFail
  ELSE IF r.Success /\ step.OnSuccess # "" THEN step.OnSuccess
  ELSE ""

\* ---- executeStep, lines 180-185 (effects on outputs and plan)
StoresOutputAlways(step, r) == step.Output # ""
StoresOutput(step, r) == step.Output # "" /\ r.Success

OutputsAfter(step, r) ==
  IF StoresOutput(step, r) THEN OutPut(outputs, step.Output, r.Output) ELSE outputs

PlanAfter(step, r) ==
  IF StoresOutput(step, r) /\ step.Output = "plan.json"
    THEN ParsePlan(plan, r.Output) ELSE plan


\* ------------------------------------------------------------------------
\* Engine.Run, lines 105-166
\* ------------------------------------------------------------------------
CurStep == steps[currentStep + 1]
LastResult == stepResults[Len(stepResults)]

StepTaskID(idx) == "step" \o ToString(idx + 1)

\* line 127
MaxLoopsError(m, idx) ==
  "max loops (" \o ToString(m) \o ") exceeded at step " \o ToString(idx + 1)

ZeroVisits(ss) == [i \in 0..(Len(ss) - 1) |-> 0]

\* the executor is not running a batch of its own in the engine specifications
ExecIdle ==
  /\ tasks = <<>>
  /\ taskChan = <<>>
  /\ taskChanClosed = FALSE
  /\ resultChan = <<>>
  /\ resultChanClosed = FALSE
  /\ workers = EmptyBag
  /\ dpc = "start"
  /\ nextEnq = 1
  /\ resultMap = EmptyMap
  /\ results = <<>>
  /\ ctxCancelled = FALSE
  /\ invocations = <<>>
  /\ completed = <<>>
  /\ ret = <<>>

\* the engine before Run is called (workflow.New, lines 82-103)
EngineNew(ss) ==
  /\ steps = ss
  /\ roleStep = RoleStep(ss)
  /\ outputs = [n \in {} |-> <<>>]
  /\ plan = NilPlan
  /\ currentStep = 0
  /\ visits = ZeroVisits(ss)
  /\ stepResults = <<>>
  /\ pc = "idle"
  /\ runResult = NoResult
  /\ runNo = 1
  /\ resumeAt = 0
  /\ wfState = NoRow

Init ==
  /\ maxRetries \in 0..MaxRetriesBound
  /\ maxWorkers = MaxWorkersBound
  /\ maxLoops \in 0..MaxLoopsBound
  /\ sessMode \in {"current", "nocurrent"}
  /\ \E ss \in Workflows : EngineNew(ss)
  /\ ExecIdle
  /\ StoreNew
  /\ ParseIdle

\* lines 110-116
RunBegin ==
  /\ pc = "idle"
  /\ outputs' = RunStart(outputs)
  /\ currentStep' = 0
  /\ visits' = ZeroVisits(steps)
  /\ stepResults' = <<>>
  /\ pc' = "head"
  /\ UNCHANGED <<steps, roleStep, plan, sessMode, maxLoops, runResult, runNo,
                 resumeAt, wfState, execVars, storeVars, parseVars>>

\* lines 118 and 158-165: the loop condition fails, the run succeeded
RunSucceed ==
  /\ pc = "head"
  /\ ~(currentStep < Len(steps))
  /\ runResult' = Result(TRUE, stepResults, OutGet(outputs, "final"), "")
  /\ pc' = "done"
  /\ UNCHANGED <<steps, roleStep, outputs, plan, sessMode, maxLoops, currentStep,
                 visits, stepResults, runNo, resumeAt, wfState, execVars, storeVars, parseVars>>

\* line 119: visits[currentStep]++
VisitSaturating(v, i) == [v EXCEPT ![i] = IF @ < maxLoops THEN @ + 1 ELSE @]
Visit(v, i) == [v EXCEPT ![i] = @ + 1]

\* line 120: the loop guard
GuardTripsLate(v, m) == v > m + 1
GuardTrips(v, m) == v > m

\* lines 119-129: the guard trips
LoopGuardTrip ==
  /\ pc = "head"
  /\ currentStep < Len(steps)
  /\ visits' = Visit(visits, currentStep)
  /\ GuardTrips(visits'[currentStep], maxLoops)
  /\ runResult' = Result(FALSE, stepResults, <<>>, MaxLoopsError(maxLoops, currentStep))
  /\ resumeAt' = currentStep
  /\ pc' = "done"
  /\ UNCHANGED <<steps, roleStep, outputs, plan, sessMode, maxLoops, currentStep,
                 stepResults, runNo, wfState, execVars, storeVars, parseVars>>

\* lines 119-131: the step is visited
LoopEnter ==
  /\ pc = "head"
  /\ currentStep < Len(steps)
  /\ visits' = Visit(visits, currentStep)
  /\ ~GuardTrips(visits'[currentStep], maxLoops)
  /\ pc' = "exec"
  /\ UNCHANGED <<steps, roleStep, outputs, plan, sessMode, maxLoops, currentStep,
                 stepResults, runResult, runNo, resumeAt, wfState, execVars, storeVars, parseVars>>

\* lines 132-133 with executeStep, lines 178-193: the step has produced sr0
Finish(sr0) ==
  /\ stepResults' = Append(stepResults,
                           [sr0 EXCEPT !.JumpTarget = JumpTargetOf(CurStep, sr0)])
  /\ outputs' = OutputsAfter(CurStep, sr0)
  /\ plan' = PlanAfter(CurStep, sr0)
  /\ pc' = "save"
  /\ UNCHANGED <<steps, roleStep, sessMode, maxLoops, currentStep, visits,
                 runResult, runNo, resumeAt, wfState, execVars, storeVars, parseVars>>

\* line 175: executeSingle
ExecSingle ==
  /\ pc = "exec"
  /\ ~FanOut(CurStep, plan)
  /\ \E outs \in Scripts(maxRetries) :
       Finish(ExecuteSingle(currentStep, CurStep,
                RunSingleTaskCtx(CurStep.Role, StepTaskID(currentStep), outs,
                                 maxRetries, ctxCancelled)))

\* line 173 and lines 225-233: executePerTask without tasks
ExecPerTaskNoTasks ==
  /\ pc = "exec"
  /\ FanOut(CurStep, plan)
  /\ ~PlanTasksOK(plan)
  /\ Finish(NoTasksInPlan(currentStep, CurStep))

\* line 173 and lines 235-277: executePerTask
ExecPerTask ==
  /\ pc = "exec"
  /\ FanOut(CurStep, plan)
  /\ PlanTasksOK(plan)
  /\ LET ets == BuildExecTasks(plan.tasks, 1, CurStep.Role)
     IN \E scripts \in [1..Len(ets) -> ConstScripts(maxRetries)],
           order \in Perms(Len(ets)) :
          LET rets == [i \in 1..Len(ets) |->
                         RunSingleTaskCtx(ets[i].Role, ets[i].ID, scripts[i],
                                          maxRetries, ctxCancelled)]
          IN Finish(ExecutePerTask(currentStep, CurStep,
                      RunParallelTasks(ets, rets, order, maxWorkers)))

\* line 135: e.saveState(currentStep, results)
SaveStateStep ==
  /\ pc = "save"
  /\ wfState' = SaveState(currentStep, stepResults)
  /\ pc' = "decide"
  /\ UNCHANGED <<steps, roleStep, outputs, plan, sessMode, maxLoops, currentStep,
                 visits, stepResults, runResult, runNo, resumeAt, execVars, storeVars, parseVars>>

\* lines 137-142
Jumps(sr) == sr.JumpTarget # "" /\ ResolveJump(sr.JumpTarget).ok

JumpTaken ==
  /\ pc = "decide"
  /\ Jumps(LastResult)
  /\ currentStep' = ResolveJump(LastResult.JumpTarget).idx
  /\ pc' = "head"
  /\ UNCHANGED <<steps, roleStep, outputs, plan, sessMode, maxLoops, visits,
                 stepResults, runResult, runNo, resumeAt, wfState, execVars, storeVars, parseVars>>

\* lines 144-153
StepFailed ==
  /\ pc = "decide"
  /\ ~Jumps(LastResult)
  /\ ~LastResult.Success
  /\ runResult' = Result(FALSE, stepResults, <<>>, LastResult.Error)
  /\ resumeAt' = currentStep
  /\ pc' = "done"
  /\ UNCHANGED <<steps, roleStep, outputs, plan, sessMode, maxLoops, currentStep,
                 visits, stepResults, runNo, wfState, execVars, storeVars, parseVars>>

\* line 155
Advance ==
  /\ pc = "decide"
  /\ ~Jumps(LastResult)
  /\ LastResult.Success
  /\ currentStep' = currentStep + 1
  /\ pc' = "head"
  /\ UNCHANGED <<steps, roleStep, outputs, plan, sessMode, maxLoops, visits,
                 stepResults, runResult, runNo, resumeAt, wfState, execVars, storeVars, parseVars>>

Next ==
  \/ RunBegin
  \/ RunSucceed
  \/ LoopGuardTrip
  \/ LoopEnter
  \/ ExecSingle
  \/ ExecPerTaskNoTasks
  \/ ExecPerTask
  \/ SaveStateStep
  \/ JumpTaken
  \/ StepFailed
  \/ Advance

Spec == Init /\ [][Next]_vars

\* the documented workflows, without retries and with one visit per step
InitDoc ==
  /\ maxRetries = 0
  /\ maxWorkers = MaxWorkersBound
  /\ maxLoops = 1
  /\ sessMode = "current"
  /\ \E ss \in DocWorkflows : EngineNew(ss)
  /\ ExecIdle
  /\ StoreNew
  /\ ParseIdle

SpecDoc == InitDoc /\ [][Next]_vars

\* ------------------------------------------------------------------------
\* Cancellation of the context handed to Run
\* ------------------------------------------------------------------------
\* the caller cancels the context as a step is about to be executed
CancelRun ==
  /\ pc = "exec"
  /\ ~ctxCancelled
  /\ ctxCancelled' = TRUE
  /\ UNCHANGED <<maxRetries, maxWorkers, tasks, taskChan, taskChanClosed,
                 resultChan, resultChanClosed, workers, dpc, nextEnq,
                 resultMap, results, invocations, ret, completed,
                 engineVars, storeVars, parseVars>>

InitCancel == Init /\ sessMode = "current"

NextCancel ==
  \/ Next
  \/ CancelRun

SpecCancel == InitCancel /\ [][NextCancel]_vars

\* Run is a sequential loop: as long as the executor calls return, it keeps
\* taking its next step.
InitLive == Init /\ maxRetries = 0 /\ sessMode = "current"
SpecLive == InitLive /\ [][Next]_vars /\ WF_vars(Next)

\* ------------------------------------------------------------------------
\* Resuming a failed run from the stored row: a fresh engine over the same
\* steps, GetWorkflowState, RestoreState (lines 414-421), and then Run.
\* ------------------------------------------------------------------------
RestoreState(pl, outs) ==
  /\ plan' = IF pl.nil THEN NilPlan ELSE pl
  /\ outputs' = outs

ResumeRestore ==
  /\ pc = "done"
  /\ runNo = 1
  /\ ~runResult.Success
  /\ wfState.present
  /\ RestoreState(RowPlan(wfState), wfState.Outputs)
  /\ currentStep' = 0
  /\ visits' = ZeroVisits(steps)
  /\ stepResults' = <<>>
  /\ runResult' = NoResult
  /\ runNo' = 2
  /\ pc' = "idle"
  /\ UNCHANGED <<steps, roleStep, sessMode, maxLoops, resumeAt, wfState, execVars, storeVars, parseVars>>

InitResume == Init /\ maxRetries = 0 /\ sessMode = "current" /\ maxLoops >= 1

NextResume ==
  \/ Next
  \/ ResumeRestore

SpecResume == InitResume /\ [][NextResume]_vars


\* ------------------------------------------------------------------------
\* Observations
\* ------------------------------------------------------------------------
RunningWorkers ==
  [wr \in {x \in BagToSet(workers) : x.pc = "running"} |-> workers[wr]]
InFlight == BagCardinality(RunningWorkers)

Min(a, b) == IF a < b THEN a ELSE b

Returned(s) == ret[s].set
Configured(s) == ConfigError(tasks[s].Role) = ""
RanToSuccess(s) ==
  IF ret[s].result = NilResult THEN FALSE ELSE ret[s].result.Success

\* ------------------------------------------------------------------------
\* C1 (retry bound).  A RunSingleTask call for a configured role whose
\* runner never succeeded, in a context that was not cancelled, has made
\* exactly maxRetries+1 runner invocations and has returned, with a nil
\* error, a TaskResult with Success = FALSE and Retries = maxRetries.
\* ------------------------------------------------------------------------
C1_RetryBound ==
  \A s \in DOMAIN ret :
    (Returned(s) /\ Configured(s) /\ ~ctxCancelled /\ ~RanToSuccess(s))
      => /\ invocations[s] = maxRetries + 1
         /\ ret[s].err = ""
         /\ ret[s].result # NilResult
         /\ ~ret[s].result.Success
         /\ ret[s].result.Retries = maxRetries

\* ------------------------------------------------------------------------
\* C2 (order preservation).  When RunParallelTasks returns for a batch with
\* pairwise-distinct ids, it returns one result per input task, the i-th
\* result carries the id and role of the i-th task, and (whenever a worker
\* ran the task) it is what RunSingleTask returned for that task, whatever
\* the order in which the tasks completed.
\* ------------------------------------------------------------------------
C2_OrderPreserved ==
  (dpc = "returned" /\ DistinctIDs(tasks))
    => /\ Len(results) = Len(tasks)
       /\ \A i \in 1..Len(tasks) :
            /\ results[i].TaskID = tasks[i].ID
            /\ results[i].Role = tasks[i].Role
            /\ Returned(i) => results[i] = WrapReturn(ret[i].result, ret[i].err, tasks[i])
            /\ (maxWorkers >= 1) => Returned(i)

\* a batch whose second task completed before its first one has returned
C2_Witness ==
  /\ dpc = "returned"
  /\ DistinctIDs(tasks)
  /\ Len(tasks) >= 2
  /\ Len(completed) = Len(tasks)
  /\ completed[1] = 2
  /\ results[1].Success /\ ~results[2].Success

\* ------------------------------------------------------------------------
\* C3 (worker bound).  With maxWorkers >= 1 the number of runner
\* invocations in flight never exceeds min(maxWorkers, len(tasks)).
\* ------------------------------------------------------------------------
C3_WorkerBound ==
  (maxWorkers >= 1) => InFlight <= Min(maxWorkers, Len(tasks))

\* the pool is saturated while a task is still queued
C3_Witness ==
  /\ maxWorkers >= 1
  /\ maxWorkers < Len(tasks)
  /\ InFlight = maxWorkers
  /\ taskChan # <<>>

\* ------------------------------------------------------------------------
\* Observations of a run
\* ------------------------------------------------------------------------
StepIdxs == 0..(Len(steps) - 1)
ExecutionsOf(i) == {j \in 1..Len(stepResults) : stepResults[j].StepIndex = i}
Executed(i) == Cardinality(ExecutionsOf(i))
AlwaysFailed(i) == \A j \in ExecutionsOf(i) : ~stepResults[j].Success
SelfRoleJump(i) == GotoRole(steps[i + 1].OnFail) = steps[i + 1].Role
SelfJump(i) == SelfRoleJump(i) /\ roleStep[steps[i + 1].Role] = i

LoopGuardOutcome(i) ==
  /\ Executed(i) = maxLoops
  /\ runResult.set
  /\ ~runResult.Success
  /\ runResult.Error = MaxLoopsError(maxLoops, i)

\* ------------------------------------------------------------------------
\* C4 (loop guard), as claimed.  With maxLoops >= 1, a step that fails every
\* time and whose onFail is goto:<its own role> is executed exactly maxLoops
\* times, and the run ends with success = false and the max-loops error
\* naming that step.
\* ------------------------------------------------------------------------
C4_LoopGuardOwnRole ==
  (pc = "done" /\ maxLoops >= 1)
    => \A i \in StepIdxs :
         (SelfRoleJump(i) /\ Executed(i) >= 1 /\ AlwaysFailed(i)) => LoopGuardOutcome(i)

\* C4 as amended: the same, for a step whose onFail directive resolves to
\* the step itself, i.e. the step is the first one with its role.
C4_LoopGuardSelf ==
  (pc = "done" /\ maxLoops >= 1)
    => \A i \in StepIdxs :
         (SelfJump(i) /\ Executed(i) >= 1 /\ AlwaysFailed(i)) => LoopGuardOutcome(i)

\* a self-looping step has failed maxLoops >= 2 times and the guard tripped
C4_Witness ==
  /\ pc = "done"
  /\ maxLoops >= 2
  /\ \E i \in StepIdxs :
       SelfJump(i) /\ Executed(i) >= 2 /\ AlwaysFailed(i) /\ LoopGuardOutcome(i)

\* ------------------------------------------------------------------------
\* C5 (termination).  Every run ends; no step index is executed more than
\* maxLoops times, so at most len(steps) * maxLoops step executions occur;
\* the run ends in success exactly when it fell off the end of the step
\* list, and in failure otherwise.
\* ------------------------------------------------------------------------
ExecutionBound ==
  /\ \A i \in StepIdxs : Executed(i) <= maxLoops
  /\ Len(stepResults) <= Len(steps) * maxLoops

EndsOneWay ==
  pc = "done" => /\ runResult.set
                 /\ runResult.Success <=> ~(currentStep < Len(steps))

C5_Terminates == <>(pc = "done") /\ [](ExecutionBound /\ EndsOneWay)

\* a cyclic workflow has used up the whole execution budget
C5_Witness ==
  /\ pc = "done"
  /\ maxLoops >= 2
  /\ Len(steps) >= 2
  /\ Len(stepResults) = Len(steps) * maxLoops

\* ------------------------------------------------------------------------
\* C6 (resume), as claimed.  When a failed run is resumed from its stored
\* row, execution continues at the step the run failed at: the resumed run
\* starts there with the stored plan, and the first step it executes is
\* that step, so no earlier step is executed again.
\* ------------------------------------------------------------------------
C6_ResumeContinuesAtFailedStep ==
  runNo = 2
    => /\ (pc = "head" /\ stepResults = <<>>)
            => (currentStep = resumeAt /\ plan = RowPlan(wfState))
       /\ stepResults # <<>> => stepResults[1].StepIndex = resumeAt

\* ------------------------------------------------------------------------
\* C7 (checkpoint points at the next step), as claimed.  Between two steps
\* the checkpoint's currentStep is the index of the step that executes next
\* (index + 1 after a plain success, the target after a jump, len(steps)
\* when the run has succeeded).
\* ------------------------------------------------------------------------
C7_CheckpointIsNextStep ==
  (sessMode = "current" /\ pc = "head" /\ stepResults # <<>>)
    => (wfState.present /\ wfState.CurrentStep = currentStep)

\* ------------------------------------------------------------------------
\* C8 (checkpoint after every step).  With a current session, whenever a
\* step has been executed and Run is about to decide on the jump or the
\* termination (and at any later point of the loop), the stored
\* WorkflowState holds the results of all steps executed so far, the last
\* one included, and the engine's current plan and outputs.
\* ------------------------------------------------------------------------
C8_CheckpointEveryStep ==
  (sessMode = "current" /\ pc \in {"decide", "head", "done"} /\ stepResults # <<>>)
    => /\ wfState.present
       /\ Len(wfState.StepResults) = Len(stepResults)
       /\ \A j \in 1..Len(stepResults) :
            wfState.StepResults[j] = StepToMap(stepResults[j])
       /\ RowPlan(wfState) = plan
       /\ wfState.Outputs = outputs

\* a failed second step, with a plan known, is checkpointed before the decision
C8_Witness ==
  /\ sessMode = "current"
  /\ pc = "decide"
  /\ Len(stepResults) >= 2
  /\ ~LastResult.Success
  /\ ~plan.nil
  /\ wfState.StepResults[Len(stepResults)].success = FALSE

\* ------------------------------------------------------------------------
\* C9 (fan-out without a plan), as claimed.  A step with perTask = true
\* that is executed while no plan is known, or while the plan has no task
\* entries, yields a failed StepResult with a non-empty error.
\* ------------------------------------------------------------------------
C9_FanOutWithoutPlanFails ==
  [][ (pc = "exec" /\ CurStep.PerTask /\ (plan.nil \/ ~PlanTasksOK(plan)))
        => (/\ ~stepResults'[Len(stepResults')].Success
            /\ stepResults'[Len(stepResults')].Error # "") ]_vars

\* ------------------------------------------------------------------------
\* C10 (gate ambiguity default).  A gate-role step whose agent run
\* succeeded and whose output holds none of approved, passed,
\* needs_revision, failed is successful; and the workflow
\* [planner(output=plan.json), gate(onFail=goto:planner)] with a valid
\* two-task plan and such a gate output ends in success after exactly two
\* step executions.
\* ------------------------------------------------------------------------
VerdictTokens == {"approved", "passed", "needs_revision", "failed"}
NoVerdictToken(out) == \A pat \in VerdictTokens : ~Contains(ToLower(out), pat)

AgentSucceeded(sr) == sr.TaskResults # <<>> /\ AllSuccess(sr.TaskResults)

AmbiguousGate(sr) ==
  sr.Role \in GateRoles /\ AgentSucceeded(sr) /\ NoVerdictToken(sr.Output)

ScenarioA ==
  <<Step("planner", "plan.json", FALSE, "", ""),
    Step("plan_validator", "", FALSE, "goto:planner", "")>>

ScenarioARun ==
  /\ steps = ScenarioA
  /\ maxLoops >= 1
  /\ Len(stepResults) >= 2
  /\ stepResults[1].Success
  /\ AmbiguousGate(stepResults[2])

C10_AmbiguousGatePasses ==
  /\ \A j \in 1..Len(stepResults) :
       AmbiguousGate(stepResults[j]) => stepResults[j].Success
  /\ ScenarioARun
       => /\ Len(stepResults) = 2
          /\ pc \in {"save", "decide", "head", "done"}
          /\ pc = "head" => currentStep = Len(steps)
          /\ pc = "done" => (runResult.Success /\ runResult.StepsCompleted = 2)

C10_Witness ==
  /\ pc = "done"
  /\ ScenarioARun
  /\ PlanTasksOK(plan) /\ Len(plan.tasks) = 2
  /\ stepResults[2].Output = <<"LGTM">>
  /\ runResult.Success
  /\ runResult.StepsCompleted = 2

\* ------------------------------------------------------------------------
\* C11 (gate rejection), as claimed.  A gate-role step, run as a single
\* task or as a per-task fan-out, whose agent runs all succeeded and whose
\* output carries a rejection verdict ("verdict" with needs_revision or
\* failed, no approval token) has success = false and its onFail directive
\* as jump target.
\* ------------------------------------------------------------------------
RejectionVerdict(out) ==
  LET lower == ToLower(out)
  IN /\ Contains(lower, "\"verdict\"")
     /\ Contains(lower, "\"needs_revision\"") \/ Contains(lower, "\"failed\"")
     /\ ~Contains(lower, "approved")
     /\ ~Contains(lower, "passed")

RejectedGate(sr) ==
  sr.Role \in GateRoles /\ AgentSucceeded(sr) /\ RejectionVerdict(sr.Output)

C11_GateRejectionFails ==
  \A j \in 1..Len(stepResults) :
    RejectedGate(stepResults[j])
      => /\ ~stepResults[j].Success
         /\ stepResults[j].JumpTarget = steps[stepResults[j].StepIndex + 1].OnFail

\* ------------------------------------------------------------------------
\* C12 (documented workflow), as claimed.  With the documented five-step
\* workflow, when every agent run succeeds, the planner has given a plan
\* with tasks and the validator and the reviewer approve, the run ends
\* with success = true, and the fixer is
\* executed only right after a failed review.
\* ------------------------------------------------------------------------
Approves(out) ==
  LET lower == ToLower(out)
  IN /\ Contains(lower, "approved")
     /\ ~Contains(lower, "needs_revision")
     /\ ~Contains(lower, "failed")

AllApproved ==
  \A j \in 1..Len(stepResults) :
    /\ AgentSucceeded(stepResults[j])
    /\ stepResults[j].Role \in GateRoles => Approves(stepResults[j].Output)

C12_DocumentedWorkflowCompletes ==
  (steps = DocWorkflow /\ pc = "done" /\ AllApproved /\ PlanTasksOK(plan))
    => /\ runResult.Success
       /\ \A j \in 1..Len(stepResults) :
            stepResults[j].Role = "fixer"
              => (j > 1 /\ stepResults[j - 1].Role = "code_reviewer"
                        /\ ~stepResults[j - 1].Success)

\* ------------------------------------------------------------------------
\* What a directive resolves to, read off the step list
\* ------------------------------------------------------------------------
StepsWithRole(role) == {i \in StepIdxs : steps[i + 1].Role = role}
DirectiveResolves(d) == HasGotoPrefix(d) /\ StepsWithRole(GotoRole(d)) # {}
TargetOf(d) == SetMin(StepsWithRole(GotoRole(d)))

\* the applicable directive of an executed step
DirectiveOf(sr) ==
  IF sr.Success THEN steps[sr.StepIndex + 1].OnSuccess
                ELSE steps[sr.StepIndex + 1].OnFail

GuardFailure(idx) ==
  /\ runResult.set
  /\ ~runResult.Success
  /\ runResult.Error = MaxLoopsError(maxLoops, idx)

\* ------------------------------------------------------------------------
\* C13 (jump semantics).  After each executed step: if its applicable
\* directive (onFail after a failure, onSuccess after a success) resolves,
\* the step executed next is the jump target and the step's own outcome
\* does not end the run (only the loop guard at the target can); otherwise
\* a failed step ends the run with success = false and that step's error,
\* and a successful step is followed by the step at index + 1.
\* ------------------------------------------------------------------------
FollowedBy(sr, idx) ==
  IF DirectiveResolves(DirectiveOf(sr)) THEN idx = TargetOf(DirectiveOf(sr))
  ELSE sr.Success /\ idx = sr.StepIndex + 1

C13_JumpSemantics ==
  /\ \A j \in 1..(Len(stepResults) - 1) :
       FollowedBy(stepResults[j], stepResults[j + 1].StepIndex)
  /\ (stepResults # <<>> /\ pc \in {"head", "exec"})
       => FollowedBy(LastResult, currentStep)
  /\ (stepResults # <<>> /\ pc = "done")
       => IF DirectiveResolves(DirectiveOf(LastResult))
            THEN GuardFailure(TargetOf(DirectiveOf(LastResult)))
          ELSE IF ~LastResult.Success
            THEN ~runResult.Success /\ runResult.Error = LastResult.Error
          ELSE runResult.Success \/ GuardFailure(LastResult.StepIndex + 1)

\* a failed step has jumped back and its target was executed next, and a
\* successful step is jumping to a target other than the step after it
C13_Witness ==
  /\ pc = "head"
  /\ \E j \in 1..(Len(stepResults) - 1) :
       /\ ~stepResults[j].Success
       /\ DirectiveResolves(DirectiveOf(stepResults[j]))
       /\ stepResults[j + 1].StepIndex = TargetOf(DirectiveOf(stepResults[j]))
  /\ LastResult.Success
  /\ DirectiveResolves(DirectiveOf(LastResult))
  /\ currentStep = TargetOf(DirectiveOf(LastResult))
  /\ currentStep # LastResult.StepIndex + 1

\* ------------------------------------------------------------------------
\* C14 (goto resolution).  "goto:<role>" resolves to the lowest step index
\* whose role is <role>, also when several steps share the role; a
\* directive without the "goto:" prefix, or naming a role no step has, does
\* not resolve, and the step's outcome is then handled as without a
\* directive: a failure ends the run with the step's error, a success goes
\* on to index + 1.
\* ------------------------------------------------------------------------
Directives ==
  {"", "planner", "plan_validator", "goto:planner", "goto:plan_validator",
   "goto:implementer", "goto:code_reviewer", "goto:nowhere"}

IgnoredDirective(sr) ==
  DirectiveOf(sr) # "" /\ ~DirectiveResolves(DirectiveOf(sr))

C14_GotoResolution ==
  /\ \A d \in Directives :
       IF DirectiveResolves(d)
         THEN ResolveJump(d).ok /\ ResolveJump(d).idx = TargetOf(d)
         ELSE ~ResolveJump(d).ok
  /\ \A j \in 1..Len(stepResults) :
       /\ Jumps(stepResults[j]) <=> DirectiveResolves(DirectiveOf(stepResults[j]))
       /\ (IgnoredDirective(stepResults[j]) /\ j < Len(stepResults))
            => /\ stepResults[j].Success
               /\ stepResults[j + 1].StepIndex = stepResults[j].StepIndex + 1
  /\ (stepResults # <<>> /\ IgnoredDirective(LastResult) /\ pc \in {"head", "exec", "done"})
       => IF LastResult.Success
            THEN currentStep = LastResult.StepIndex + 1
            ELSE pc = "done" /\ ~runResult.Success /\ runResult.Error = LastResult.Error

\* the second of two steps with the same role has failed with a goto to
\* that role, and the first of them was executed next
C14_Witness ==
  /\ Len(steps) = 2
  /\ steps[1].Role = steps[2].Role
  /\ \E j \in 1..(Len(stepResults) - 1) :
       /\ stepResults[j].StepIndex = 1
       /\ ~stepResults[j].Success
       /\ GotoRole(steps[2].OnFail) = steps[2].Role
       /\ stepResults[j + 1].StepIndex = 0

\* ------------------------------------------------------------------------
\* C15 (configuration errors).  A RunSingleTask call for a role that is not
\* configured, or whose agent is not configured, returns an error and no
\* TaskResult, has invoked the runner zero times, and never waits for a
\* retry.
\* ------------------------------------------------------------------------
UnknownRoleOrAgent(role) ==
  role \notin CfgRoles \/ RoleAgent(role) \notin CfgAgents

WorkersOn(s) == {wr \in BagToSet(workers) : wr.slot = s}

C15_ConfigErrorImmediate ==
  \A s \in DOMAIN ret :
    UnknownRoleOrAgent(tasks[s].Role)
      => /\ invocations[s] = 0
         /\ \A wr \in WorkersOn(s) : wr.pc = "send" /\ wr.st.attempt = 0
         /\ Returned(s) => (ret[s].err # "" /\ ret[s].result = NilResult)

\* a call for a role whose agent is not configured has returned, next to a
\* call of the same batch that did invoke the runner
C15_Witness ==
  \E s, t \in DOMAIN ret :
    /\ tasks[s].Role \in CfgRoles
    /\ RoleAgent(tasks[s].Role) \notin CfgAgents
    /\ Returned(s)
    /\ ret[s].err = "unknown agent: gemini"
    /\ invocations[t] >= 1

\* ------------------------------------------------------------------------
\* C16 (errors are configuration errors), as claimed.  RunSingleTask
\* returns a non-nil error only for a configuration problem (unknown role,
\* unknown agent, no adapter); every other call, also one whose context is
\* cancelled while it waits between attempts, returns a nil error and a
\* TaskResult, which has Success = FALSE unless the runner succeeded.
\* ------------------------------------------------------------------------
C16_ErrorOnlyForConfig ==
  \A s \in DOMAIN ret :
    Returned(s)
      => IF Configured(s)
           THEN ret[s].err = "" /\ ret[s].result # NilResult
           ELSE ret[s].err # ""

\* ------------------------------------------------------------------------
\* C17 (configuration error before any run), as claimed.  When some step
\* of the workflow names a role that is not configured, or whose agent is
\* not configured, the run ends with failure and no runner invocation is
\* made in it, whichever step the offending one is.
\* ------------------------------------------------------------------------
\* a TaskResult built by RunSingleTask after the runner was invoked carries
\* the agent's name (part_009 lines 101-110 and 123-130)
RunnerInvoked(sr) ==
  \E t \in 1..Len(sr.TaskResults) : sr.TaskResults[t].Agent # ""

C17_ConfigErrorBeforeAnyRun ==
  (\E i \in 1..Len(steps) : UnknownRoleOrAgent(steps[i].Role))
    => /\ \A j \in 1..Len(stepResults) : ~RunnerInvoked(stepResults[j])
       /\ pc = "done" => ~runResult.Success

\* ------------------------------------------------------------------------
\* C18 (cancellation), as claimed.  When the context is cancelled during a
\* run (with retries configured, so that the executor itself reports the
\* cancellation), the run ends with a failure whose reason identifies
\* cancellation, for every workflow.
\* ------------------------------------------------------------------------
CancelledReason == "context canceled"

C18_CancelledRunSaysSo ==
  (ctxCancelled /\ maxRetries >= 1 /\ pc = "done")
    => (~runResult.Success /\ runResult.Error = CancelledReason)

\* ------------------------------------------------------------------------
\* C19 (first success ends the retries).  A RunSingleTask call that has
\* returned a successful TaskResult has returned a nil error, its Retries
\* is the 0-based index k <= maxRetries of the attempt that succeeded, the
\* runner has been invoked exactly k + 1 times for it, and it is not
\* invoked again afterwards.
\* ------------------------------------------------------------------------
C19_FirstSuccessStops ==
  \A s \in DOMAIN ret :
    (Returned(s) /\ RanToSuccess(s))
      => /\ ret[s].err = ""
         /\ ret[s].result.Retries \in 0..maxRetries
         /\ invocations[s] = ret[s].result.Retries + 1
         /\ \A wr \in WorkersOn(s) : wr.pc = "send"

\* a call has succeeded on its second attempt and its result was delivered
C19_Witness ==
  \E s \in DOMAIN ret :
    /\ Returned(s)
    /\ RanToSuccess(s)
    /\ ret[s].result.Retries = 1
    /\ invocations[s] = 2
    /\ dpc = "returned"

\* ------------------------------------------------------------------------
\* C20 (no worker outlives the call).  Once RunParallelTasks has returned,
\* every worker goroutine it started has left its loop and exited: none
\* is receiving, running the runner, waiting to retry or sending, so no
\* runner invocation is in flight.
\* ------------------------------------------------------------------------
C20_NoWorkerOutlivesCall ==
  dpc = "returned"
    => /\ \A wr \in BagToSet(workers) : wr.pc = "exited"
       /\ InFlight = 0

\* a batch of two tasks, run by two workers with at least one retry, has
\* returned
C20_Witness ==
  /\ dpc = "returned"
  /\ Len(tasks) = MaxTasks
  /\ BagCardinality(workers) = MaxWorkersBound
  /\ \E s \in DOMAIN invocations : invocations[s] >= 2

\* ------------------------------------------------------------------------
\* C21 (each task is run exactly once).  With maxWorkers >= 1, every task
\* that has been put on the queue is in exactly one place: still queued,
\* held by exactly one worker that is running RunSingleTask for it or
\* delivering its result, or completed once; when RunParallelTasks has
\* returned every input task has returned from RunSingleTask and was
\* completed exactly once.
\* ------------------------------------------------------------------------
Occurrences(q, s) == Cardinality({i \in DOMAIN q : q[i] = s})
Holders(s) ==
  BagCardinality([wr \in WorkersOn(s) |-> workers[wr]])

C21_EachTaskOnce ==
  (maxWorkers >= 1)
    => /\ \A s \in 1..Len(tasks) :
            Occurrences(taskChan, s) + Holders(s) + Occurrences(completed, s)
              = (IF s < nextEnq THEN 1 ELSE 0)
       /\ dpc = "returned"
            => \A s \in 1..Len(tasks) :
                 Returned(s) /\ Occurrences(completed, s) = 1

\* two workers have shared a batch of two tasks, the second task having
\* completed first, and the call has returned
C21_Witness ==
  /\ dpc = "returned"
  /\ maxWorkers >= 2
  /\ Len(tasks) = MaxTasks
  /\ completed = <<2, 1>>

WellFormedResult(r) ==
  /\ r.Retries \in 0..maxRetries
  /\ r.Success => r.Error = ""

C23_ResultInvariant ==
  /\ \A s \in DOMAIN ret :
       (Returned(s) /\ ret[s].result # NilResult) => WellFormedResult(ret[s].result)
  /\ dpc = "returned" => \A i \in DOMAIN results : WellFormedResult(results[i])

\* a batch has returned with a task that succeeded on its last permitted
\* attempt and a task that failed on every attempt with an error text
C23_Witness ==
  /\ dpc = "returned"
  /\ maxRetries = MaxRetriesBound
  /\ \E i, j \in DOMAIN results :
       /\ results[i].Success
       /\ results[i].Retries = maxRetries
       /\ ~results[j].Success
       /\ results[j].Error = "boom"
       /\ results[j].Retries = maxRetries

\* ========================================================================
\* The session store: session.Database and session.Manager (database.go)
\* ========================================================================
MaxSessions == 2       \* sessions ever created
MaxRows == 1           \* messages ever inserted
MaxTools == 1          \* tool invocations ever recorded
MaxTime == 4           \* last tick of the clock
MaxRetention == 1      \* largest retentionDays handed to CleanupOldSessions
TicksPerSecond == 2    \* resolution of the clock against that of RFC3339
SecondsPerDay == 1     \* scale of a day on the model's clock

SessionIDs == 1..MaxSessions

\* models.go lines 8-15
StatusActive == "active"
StatusCompleted == "completed"
StatusFailed == "failed"
StatusInterrupted == "interrupted"

\* t.Format(time.RFC3339): the text keeps whole seconds only; texts of one
\* zone compare as their seconds do
FormatRFC3339(t) == t \div TicksPerSecond

\* time.Now().AddDate(0, 0, -retentionDays), database.go line 200
AddDays(t, days) == t + days * SecondsPerDay * TicksPerSecond

\* json.Marshal / json.Unmarshal of WorkflowState.Plan (lines 312, 339-341):
\* a nil map is stored as the text null and read back as a nil map
MarshalPlan(pl) == IF pl.nil THEN [json |-> "null"] ELSE [json |-> "object", value |-> pl]
UnmarshalPlan(text) == IF text.json = "null" THEN NilPlan ELSE text.value

\* json.Marshal / json.Unmarshal of StepResults and Outputs (lines 311, 313,
\* 337-338)
MarshalValue(v) == [json |-> "value", value |-> v]
UnmarshalValue(text) == text.value

\* arguments of Manager.SaveWorkflowState
Checkpoint(cur, srs, pl, outs) ==
  [CurrentStep |-> cur, StepResults |-> srs, Plan |-> pl, Outputs |-> outs]

Checkpoints ==
  { Checkpoint(0, <<>>, NilPlan, [n \in {} |-> <<>>]),
    Checkpoint(1, <<>>, PlanObj(TRUE, <<Entry("t1")>>), [n \in {} |-> <<>>]) }

\* ---- the tables ---------------------------------------------------------
SessionRow(status, updated) == [status |-> status, updated_at |-> updated]

MessageRow(id, sid, ts, role, content) ==
  [id |-> id, session_id |-> sid, timestamp |-> ts, role |-> role,
   content |-> content]

\* (of a tool invocation only the columns id and session_id are kept)
ToolRow(id, sid) == [id |-> id, session_id |-> sid]

WorkflowRow(sid, cp) ==
  [session_id |-> sid, current_step |-> cp.CurrentStep,
   step_results |-> MarshalValue(cp.StepResults),
   plan |-> MarshalPlan(cp.Plan),
   outputs |-> MarshalValue(cp.Outputs)]

Exists(sid) == sid \in DOMAIN sessions

\* sid := sessionID; if sid == "" { sid = m.currentSessionID }
Resolve(sessionID) == IF sessionID = 0 THEN currentSessionID ELSE sessionID

\* UPDATE sessions SET status = ?, updated_at = ? WHERE id = ?  (lines 138-142)
UpdateSessionStatus(tbl, sid, status, t) ==
  [s \in DOMAIN tbl |->
     IF s = sid THEN [tbl[s] EXCEPT !.status = status,
                                    !.updated_at = FormatRFC3339(t)]
     ELSE tbl[s]]

\* ON DELETE CASCADE with PRAGMA foreign_keys = ON (lines 13-55, 79-82):
\* the rows of a child table that survive the deletion of the sessions gone
CascadeOff(rows, gone) == rows
Cascade(rows, gone) == {r \in rows : r.session_id \notin gone}

\* DELETE FROM sessions WHERE id IN gone
DeleteRows(tbl, gone) == [s \in (DOMAIN tbl) \ gone |-> tbl[s]]

\* DELETE ... WHERE updated_at < ? AND status IN (completed, failed)
\* (lines 199-208)
ExpiredAnyStatus(tbl, t, days) ==
  {s \in DOMAIN tbl : tbl[s].updated_at < FormatRFC3339(AddDays(t, 0 - days))}
Expired(tbl, t, days) ==
  {s \in DOMAIN tbl :
     /\ tbl[s].updated_at < FormatRFC3339(AddDays(t, 0 - days))
     /\ tbl[s].status \in {StatusCompleted, StatusFailed}}

\* INSERT OR REPLACE INTO workflow_states (lines 315-318): session_id is the
\* primary key, so the row of the same session is replaced
UpsertAppend(rows, row) == rows \cup {row}
Upsert(rows, row) ==
  {r \in rows : r.session_id # row.session_id} \cup {row}

\* SELECT * FROM workflow_states WHERE session_id = ?  (lines 322-344)
GetWorkflowState(sid) ==
  LET found == {r \in workflowStates : r.session_id = sid}
  IN IF found = {} THEN [nil |-> TRUE]
     ELSE LET r == CHOOSE x \in found : TRUE
          IN [nil |-> FALSE,
              state |-> Checkpoint(r.current_step, UnmarshalValue(r.step_results),
                                   UnmarshalPlan(r.plan), UnmarshalValue(r.outputs))]

\* ListSessions, lines 150-192: ORDER BY updated_at DESC; a is listed before
\* b in every listing that holds both
ListedBefore(a, b) == sessions[a].updated_at > sessions[b].updated_at

Idle == mpc = ManagerIdle

\* ---- the calls ----------------------------------------------------------
\* time passes
Tick ==
  /\ now < MaxTime
  /\ now' = now + 1
  /\ UNCHANGED <<deletedBy, toolsCreated, sessions, sessionsCreated,
                 messages, toolInvocations, workflowStates, rowsCreated,
                 currentSessionID, mpc, lastSaved, execVars, engineVars, parseVars>>

\* Manager.CreateSession, lines 467-490, with Database.CreateSession, 98-106
CreateSession ==
  /\ Idle
  /\ sessionsCreated < MaxSessions
  /\ LET id == sessionsCreated + 1
     IN /\ sessionsCreated' = id
        /\ sessions' = [s \in (DOMAIN sessions) \cup {id} |->
                          IF s = id
                            THEN SessionRow(StatusActive, FormatRFC3339(now))
                            ELSE sessions[s]]
        /\ currentSessionID' = id
  /\ UNCHANGED <<deletedBy, toolsCreated, now, messages, toolInvocations,
                 workflowStates, rowsCreated, mpc, lastSaved, execVars,
                 engineVars, parseVars>>

\* Manager.CompleteSession, lines 525-542
CompleteSession(sessionID) ==
  /\ Idle
  /\ LET sid == Resolve(sessionID)
     IN /\ sessions' = UpdateSessionStatus(sessions, sid, StatusCompleted, now)
        /\ currentSessionID' = IF sid = currentSessionID THEN 0 ELSE currentSessionID
  /\ UNCHANGED <<deletedBy, toolsCreated, now, sessionsCreated, messages,
                 toolInvocations, workflowStates, rowsCreated, mpc,
                 lastSaved, execVars, engineVars, parseVars>>

\* Manager.InterruptSession, lines 567-576
InterruptSession(sessionID) ==
  /\ Idle
  /\ LET sid == Resolve(sessionID)
     IN /\ sessions' = UpdateSessionStatus(sessions, sid, StatusInterrupted, now)
  /\ UNCHANGED <<deletedBy, toolsCreated, now, sessionsCreated, messages,
                 toolInvocations, workflowStates, rowsCreated,
                 currentSessionID, mpc, lastSaved, execVars, engineVars, parseVars>>

\* INSERT INTO messages, lines 210-222: refused by the foreign key when the
\* session does not exist
InsertMessage(sid, role, content) ==
  IF Exists(sid)
    THEN messages \cup {MessageRow(rowsCreated + 1, sid, FormatRFC3339(now),
                                   role, content)}
    ELSE messages

\* Manager.AddMessage, lines 606-633, with Database.AddMessage, 210-222
AddMessage(sessionID, content) ==
  /\ Idle
  /\ rowsCreated < MaxRows
  /\ LET sid == Resolve(sessionID)
     IN /\ messages' = IF sid = 0 THEN messages
                       ELSE InsertMessage(sid, "user", content)
        /\ rowsCreated' = IF sid = 0 THEN rowsCreated ELSE rowsCreated + 1
  /\ UNCHANGED <<deletedBy, toolsCreated, now, sessions, sessionsCreated,
                 toolInvocations, workflowStates, currentSessionID, mpc,
                 lastSaved, execVars, engineVars, parseVars>>

\* Manager.RecordToolInvocation, lines 650-679, with
\* Database.AddToolInvocation, 258-273
RecordToolInvocation(sessionID) ==
  /\ Idle
  /\ toolsCreated < MaxTools
  /\ LET sid == Resolve(sessionID)
     IN /\ toolInvocations' =
             IF Exists(sid)
               THEN toolInvocations \cup {ToolRow(toolsCreated + 1, sid)}
               ELSE toolInvocations
        /\ toolsCreated' = IF sid = 0 THEN toolsCreated ELSE toolsCreated + 1
  /\ UNCHANGED <<deletedBy, now, sessions, sessionsCreated, messages,
                 workflowStates, rowsCreated, currentSessionID, mpc,
                 lastSaved, execVars, engineVars, parseVars>>

\* Manager.FailSession, lines 544-558: the session is resolved and, for a
\* non-empty error text, the system message is added.  The INSERT may fail
\* (db.Exec returns an error: inserted is FALSE); line 555 drops the error
\* of m.AddMessage and goes on.
FailSessionAddMessage(sessionID, errMsg, inserted) ==
  /\ Idle
  /\ errMsg = "" \/ rowsCreated < MaxRows
  /\ LET sid == Resolve(sessionID)
     IN IF sid = 0
          THEN UNCHANGED <<messages, rowsCreated, mpc>>
          ELSE /\ messages' = IF errMsg = "" \/ ~inserted THEN messages
                              ELSE InsertMessage(sid, "system",
                                                 "Session failed: " \o errMsg)
               /\ rowsCreated' = IF errMsg = "" THEN rowsCreated
                                 ELSE rowsCreated + 1
               /\ mpc' = [op |-> "FailSession", sid |-> sid, arg |-> errMsg]
  /\ UNCHANGED <<deletedBy, toolsCreated, now, sessions, sessionsCreated,
                 toolInvocations, workflowStates, currentSessionID,
                 lastSaved, execVars, engineVars, parseVars>>

\* Manager.FailSession, lines 560-565: the status is updated and the call
\* returns
FailSessionUpdateStatus ==
  /\ mpc.op = "FailSession"
  /\ sessions' = UpdateSessionStatus(sessions, mpc.sid, StatusFailed, now)
  /\ currentSessionID' = IF mpc.sid = currentSessionID THEN 0 ELSE currentSessionID
  /\ mpc' = ManagerIdle
  /\ UNCHANGED <<deletedBy, toolsCreated, now, sessionsCreated, messages,
                 toolInvocations, workflowStates, rowsCreated, lastSaved,
                 execVars, engineVars, parseVars>>

\* the observations of the sessions that are left
Keep(f, gone) == [s \in (DOMAIN f) \ gone |-> f[s]]

\* the sessions of gone have been deleted by call, each with so many rows
\* of the child tables
Record(f, gone, call) ==
  [s \in (DOMAIN f) \cup gone |->
     IF s \in gone
       THEN [call |-> call,
             rows |-> Cardinality({r \in messages \cup toolInvocations
                                           \cup workflowStates :
                                     r.session_id = s})]
       ELSE f[s]]

\* Manager.DeleteSession, lines 592-597, with Database.DeleteSession, 194-197
DeleteSession(sessionID) ==
  /\ Idle
  /\ LET gone == {sessionID} \cap DOMAIN sessions
     IN /\ sessions' = DeleteRows(sessions, gone)
        /\ messages' = Cascade(messages, gone)
        /\ toolInvocations' = Cascade(toolInvocations, gone)
        /\ workflowStates' = Cascade(workflowStates, gone)
        /\ lastSaved' = Keep(lastSaved, gone)
        /\ deletedBy' = Record(deletedBy, gone, "DeleteSession")
  /\ UNCHANGED <<toolsCreated, now, sessionsCreated, rowsCreated,
                 currentSessionID, mpc, execVars, engineVars, parseVars>>

\* Manager.CleanupOldSessions, lines 599-604, with
\* Database.CleanupOldSessions, 199-208
CleanupOldSessions(retentionDays) ==
  /\ Idle
  /\ LET gone == Expired(sessions, now, retentionDays)
     IN /\ sessions' = DeleteRows(sessions, gone)
        /\ messages' = Cascade(messages, gone)
        /\ toolInvocations' = Cascade(toolInvocations, gone)
        /\ workflowStates' = Cascade(workflowStates, gone)
        /\ lastSaved' = Keep(lastSaved, gone)
        /\ deletedBy' = Record(deletedBy, gone, "CleanupOldSessions")
  /\ UNCHANGED <<toolsCreated, now, sessionsCreated, rowsCreated,
                 currentSessionID, mpc, execVars, engineVars, parseVars>>

\* Manager.SaveWorkflowState, lines 696-721, with
\* Database.SaveWorkflowState, 310-320: refused by the foreign key when the
\* session does not exist
SaveWorkflowState(sessionID, cp) ==
  /\ Idle
  /\ LET sid == Resolve(sessionID)
     IN /\ workflowStates' = IF Exists(sid)
                               THEN Upsert(workflowStates, WorkflowRow(sid, cp))
                               ELSE workflowStates
        /\ lastSaved' = IF Exists(sid)
                          THEN [s \in (DOMAIN lastSaved) \cup {sid} |->
                                  IF s = sid THEN cp ELSE lastSaved[s]]
                          ELSE lastSaved
  /\ UNCHANGED <<deletedBy, toolsCreated, now, sessions, sessionsCreated,
                 messages, toolInvocations, rowsCreated, currentSessionID,
                 mpc, execVars, engineVars, parseVars>>

NextStore ==
  \/ Tick
  \/ CreateSession
  \/ \E sid \in 0..MaxSessions : CompleteSession(sid)
  \/ \E sid \in 0..MaxSessions : InterruptSession(sid)
  \/ \E sid \in 0..MaxSessions, c \in {"hello"} : AddMessage(sid, c)
  \/ \E sid \in 0..MaxSessions : RecordToolInvocation(sid)
  \/ \E sid \in 0..MaxSessions, e \in {"", "boom"}, inserted \in BOOLEAN :
       FailSessionAddMessage(sid, e, inserted)
  \/ FailSessionUpdateStatus
  \/ \E sid \in SessionIDs : DeleteSession(sid)
  \/ \E d \in 0..MaxRetention : CleanupOldSessions(d)
  \/ \E sid \in 0..MaxSessions, cp \in Checkpoints : SaveWorkflowState(sid, cp)

\* the executor and the engine are not running in the store specification
InitStore ==
  /\ maxRetries = 0
  /\ maxWorkers = MaxWorkersBound
  /\ maxLoops = 0
  /\ sessMode = "nocurrent"
  /\ EngineNew(<<>>)
  /\ ExecIdle
  /\ StoreNew
  /\ ParseIdle

SpecStore == InitStore /\ [][NextStore]_vars

StoreTypeOK ==
  /\ DOMAIN sessions \subseteq SessionIDs
  /\ currentSessionID \in 0..MaxSessions

\* ------------------------------------------------------------------------
\* C24 (terminal statuses are final).  Every change of a session's status
\* leads from active to completed, failed or interrupted, and a session
\* whose status is completed or failed keeps it under every later
\* CompleteSession, FailSession or InterruptSession call.
\* ------------------------------------------------------------------------
StatusChanged(s) ==
  /\ s \in DOMAIN sessions
  /\ s \in DOMAIN sessions'
  /\ sessions'[s].status # sessions[s].status

C24_TerminalStatusIsFinal ==
  [][\A s \in SessionIDs :
       StatusChanged(s)
         => /\ sessions[s].status \notin {StatusCompleted, StatusFailed}
            /\ sessions[s].status = StatusActive
            /\ sessions'[s].status \in {StatusCompleted, StatusFailed,
                                        StatusInterrupted}]_vars

\* ------------------------------------------------------------------------
\* C25 (updatedAt follows every mutation).  A session's updated_at is never
\* older than the timestamp of any of its messages, so that a session that
\* has just received a message is listed before every session whose last
\* mutation is older.
\* ------------------------------------------------------------------------
C25_UpdatedAtCoversMessages ==
  \A m \in messages :
    /\ sessions[m.session_id].updated_at >= m.timestamp
    /\ \A other \in DOMAIN sessions :
         sessions[other].updated_at < m.timestamp
           => ListedBefore(m.session_id, other)

\* ------------------------------------------------------------------------
\* C26 (one checkpoint per session, last write wins).  The table
\* workflow_states holds at most one row per session; GetWorkflowState(s)
\* returns nothing when no SaveWorkflowState has succeeded for s, and
\* otherwise the currentStep, stepResults, plan and outputs handed to the
\* most recent one, whatever was saved for the other sessions.
\* ------------------------------------------------------------------------
RowsOf(sid) == {r \in workflowStates : r.session_id = sid}

C26_CheckpointIsLatestSave ==
  \A s \in SessionIDs :
    /\ Cardinality(RowsOf(s)) <= 1
    /\ IF s \in DOMAIN lastSaved
         THEN GetWorkflowState(s) = [nil |-> FALSE, state |-> lastSaved[s]]
         ELSE GetWorkflowState(s) = [nil |-> TRUE]

\* two sessions hold different checkpoints, one of them with a nil plan
C26_Witness ==
  /\ DOMAIN lastSaved = SessionIDs
  /\ lastSaved[1] # lastSaved[2]
  /\ GetWorkflowState(1).state.Plan = NilPlan
  /\ GetWorkflowState(2).state.CurrentStep = 1

\* ------------------------------------------------------------------------
\* C27 (cleanup deletes expired terminal sessions only).  A call of
\* CleanupOldSessions(retentionDays) deletes exactly the sessions that are
\* completed or failed and whose updated_at lies a whole retention window
\* before the time of the call; it leaves every other session as it was and
\* never deletes an active or interrupted session, whatever its age.
\* ------------------------------------------------------------------------
Terminal(s) == sessions[s].status \in {StatusCompleted, StatusFailed}

\* the second in which s was last updated ended retentionDays or more ago
OlderThan(s, retentionDays) ==
  (sessions[s].updated_at + retentionDays * SecondsPerDay + 1) * TicksPerSecond
    <= now

C27_CleanupDeletesExpiredOnly ==
  [][\A d \in 0..MaxRetention :
       CleanupOldSessions(d)
         => /\ DOMAIN sessions' =
                 {s \in DOMAIN sessions : ~(Terminal(s) /\ OlderThan(s, d))}
            /\ \A s \in DOMAIN sessions' : sessions'[s] = sessions[s]]_vars

\* a cleanup has deleted a session while a session that is active or
\* interrupted, and older than the longest retention, is still there
C27_Witness ==
  /\ \E s \in DOMAIN deletedBy : deletedBy[s].call = "CleanupOldSessions"
  /\ \E s \in DOMAIN sessions :
       /\ sessions[s].status \in {StatusActive, StatusInterrupted}
       /\ OlderThan(s, MaxRetention)

\* ------------------------------------------------------------------------
\* C28 (deletion cascades, nothing is orphaned).  After every step of the
\* store each message, tool invocation and workflow state belongs to a
\* session that exists; a step that deletes sessions (DeleteSession or
\* CleanupOldSessions) removes all rows of the deleted sessions from the
\* three child tables and no row of any other session.
\* ------------------------------------------------------------------------
Surviving(rows, gone) == {r \in rows : r.session_id \notin gone}

C28_DeleteCascades ==
  [][LET gone == (DOMAIN sessions) \ (DOMAIN sessions')
     IN /\ \A r \in messages' \cup toolInvocations' \cup workflowStates' :
             r.session_id \in DOMAIN sessions'
        /\ gone # {}
             => /\ messages' = Surviving(messages, gone)
                /\ toolInvocations' = Surviving(toolInvocations, gone)
                /\ workflowStates' = Surviving(workflowStates, gone)]_vars

\* a session that had a message, a tool invocation and a checkpoint has
\* been deleted, and the checkpoint of the other session is still there
C28_Witness ==
  /\ \E s \in DOMAIN deletedBy : deletedBy[s].rows = 3
  /\ \E o \in DOMAIN sessions : RowsOf(o) # {}

\* ------------------------------------------------------------------------
\* C29 (FailSession records the error first).  When FailSession(s, err),
\* for an existing session s and a non-empty err, changes the status of s,
\* the transcript of s already holds a system message with the text of err;
\* when the call has returned, s is failed and the message is still in its
\* transcript.  No other call makes a session failed.
\* ------------------------------------------------------------------------
ErrorMessageOf(sid, err, msgs) ==
  {m \in msgs : /\ m.session_id = sid
                /\ m.role = "system"
                /\ m.content = "Session failed: " \o err}

C29_FailSessionRecordsError ==
  [][/\ (FailSessionUpdateStatus /\ Exists(mpc.sid) /\ mpc.arg # "")
          => /\ ErrorMessageOf(mpc.sid, mpc.arg, messages) # {}
             /\ ErrorMessageOf(mpc.sid, mpc.arg, messages') # {}
             /\ sessions'[mpc.sid].status = StatusFailed
             /\ mpc' = ManagerIdle
     /\ \A s \in SessionIDs :
          (StatusChanged(s) /\ sessions'[s].status = StatusFailed)
             => mpc.op = "FailSession" /\ mpc.sid = s]_vars

\* ========================================================================
\* Plans as text: json.Marshal of a workflow.Plan, the text an agent wraps
\* around it, and the two parsers (workflow.ParsePlan, Engine.parsePlan).
\*
\* A Go string is a sequence of atoms; the atom Fence is three backticks,
\* every other atom is text without backticks.  A text is a sequence of
\* tokens: a fence, the word json right after a fence, prose, or a piece of
\* a JSON document.  json.Marshal does not escape backticks, so a document
\* whose strings hold k fences is 2k+1 tokens: its pieces with the fences
\* between them.
\* ========================================================================
MaxPlanTasks == 2
MaxPlanSpecs == 1

PlanTask(id, description, files, criteria) ==
  [ID |-> id, Description |-> description, Files |-> files,
   AcceptanceCriteria |-> criteria]

PlanSpec(file, content) == [File |-> file, Content |-> content]

NewPlan(tks, specs) == [Tasks |-> tks, Specs |-> specs]

\* a key tagged omitempty is left out when its slice is empty
OmitEmpty(key, v) ==
  IF v = <<>> THEN [x \in {} |-> v] ELSE [x \in {key} |-> v]

\* json.Marshal under the struct tags of Plan, Task and Spec
EncodePlan(p) ==
  LET EncodeTask(t) ==
        [id |-> t.ID, description |-> t.Description]
          @@ OmitEmpty("files", t.Files)
          @@ OmitEmpty("acceptance_criteria", t.AcceptanceCriteria)
      EncodeSpec(sp) == [file |-> sp.File, content |-> sp.Content]
  IN [tasks |-> [i \in DOMAIN p.Tasks |-> EncodeTask(p.Tasks[i])]]
       @@ OmitEmpty("specs",
                    [i \in DOMAIN p.Specs |-> EncodeSpec(p.Specs[i])])

\* json.Unmarshal of a document into the structs: an absent key leaves the
\* field at its zero value
DecodePlan(doc) ==
  LET FieldOr(o, key) == IF key \in DOMAIN o THEN o[key] ELSE <<>>
      DecodeTask(o) ==
        PlanTask(FieldOr(o, "id"), FieldOr(o, "description"),
                 FieldOr(o, "files"), FieldOr(o, "acceptance_criteria"))
      DecodeSpec(o) == PlanSpec(FieldOr(o, "file"), FieldOr(o, "content"))
      ts == FieldOr(doc, "tasks")
      ss == FieldOr(doc, "specs")
  IN NewPlan([i \in DOMAIN ts |-> DecodeTask(ts[i])],
             [i \in DOMAIN ss |-> DecodeSpec(ss[i])])

\* the number of fences in the strings of a plan
FencesIn(p) ==
  LET TaskStrings(t) ==
        <<t.ID, t.Description>> \o t.Files \o t.AcceptanceCriteria
      SpecStrings(sp) == <<sp.File, sp.Content>>
      RECURSIVE Concat(_)
      Concat(ss) == IF ss = <<>> THEN <<>> ELSE Head(ss) \o Concat(Tail(ss))
      atoms ==
        Concat(Concat([i \in DOMAIN p.Tasks |-> TaskStrings(p.Tasks[i])])
               \o Concat([i \in DOMAIN p.Specs |-> SpecStrings(p.Specs[i])]))
  IN Cardinality({i \in DOMAIN atoms : atoms[i] = Fence})

\* a fence, the tag json after a fence, or prose
Tok(kind) == [kind |-> kind]

PieceTok(doc, i) == [kind |-> "piece", doc |-> doc, part |-> i]

\* the text of a document: its pieces, cut at the fences in its strings
DocText(doc) ==
  [i \in 1..(2 * FencesIn(DecodePlan(doc)) + 1) |->
     IF i % 2 = 1 THEN PieceTok(doc, (i - 1) \div 2) ELSE Tok("fence")]

\* the agent's output around the plan text
Wrappings == {"bare", "fenced", "untagged"}

WrapPlan(text, how) ==
  CASE how = "bare" -> text
    [] how = "fenced" ->
         <<Tok("prose"), Tok("fence"), Tok("tag")>> \o text
           \o <<Tok("fence"), Tok("prose")>>
    [] how = "untagged" -> <<Tok("fence")>> \o text \o <<Tok("fence")>>

\* jsonRe.FindStringSubmatch(output)[1], or output when nothing matches:
\* the text between the first fence (and its optional tag) and the next
\* fence after it
FindStringSubmatch(text) ==
  LET fences == {i \in DOMAIN text : text[i] = Tok("fence")}
  IN IF Cardinality(fences) < 2 THEN text
     ELSE LET a == SetMin(fences)
              b == SetMin(fences \ {a})
              from == IF a + 1 < b /\ text[a + 1] = Tok("tag")
                      THEN a + 2 ELSE a + 1
          IN SubSeq(text, from, b - 1)

\* json.Unmarshal accepts a text only when it is one whole document
IsDocument(text) ==
  /\ text # <<>>
  /\ text[1].kind = "piece"
  /\ text = DocText(text[1].doc)

\* workflow.ParsePlan: the error, or the plan
TypesParsePlan(output) ==
  LET jsonStr == FindStringSubmatch(output)
  IN IF IsDocument(jsonStr)
     THEN [err |-> FALSE, plan |-> DecodePlan(jsonStr[1].doc)]
     ELSE [err |-> TRUE]

\* Engine.parsePlan: Engine.plan afterwards
EngineParsePlan(old, output) ==
  LET jsonStr == FindStringSubmatch(output)
  IN IF IsDocument(jsonStr) THEN jsonStr[1].doc ELSE old

\* ---- inputs ----
\* plans of up to MaxPlanTasks tasks and MaxPlanSpecs specs, over strings
\* with no, one and two fences
Plans ==
  LET strings == {<<"a">>, <<"see", Fence>>, <<Fence, "go", Fence>>}
      lists == {<<>>, << <<"main.go">> >>}
      tks == {PlanTask(<<"t1">>, d, f, c) :
                d \in strings, f \in lists, c \in lists}
      sps == {PlanSpec(<<"spec.md">>, c) : c \in strings}
  IN {NewPlan(ts, ss) :
        ts \in UNION {[1..n -> tks] : n \in 0..MaxPlanTasks},
        ss \in UNION {[1..n -> sps] : n \in 0..MaxPlanSpecs}}

\* outputs that hold no JSON document at all
RawTexts ==
  {<<>>, <<Tok("prose")>>, <<Tok("fence"), Tok("prose"), Tok("fence")>>,
   <<Tok("prose"), Tok("fence"), Tok("tag"), Tok("prose"), Tok("fence")>>}

\* Engine.plan before the call
PriorPlan == EncodePlan(NewPlan(<<PlanTask(<<"t0">>, <<"a">>, <<>>, <<>>)>>, <<>>))

\* ---- the steps ----
\* the plan is marshalled and the agent wraps it
SerializePlan ==
  /\ ppc = "start"
  /\ planIn.kind = "plan"
  /\ planText' = WrapPlan(DocText(EncodePlan(planIn.plan)), planIn.wrap)
  /\ ppc' = "text"
  /\ UNCHANGED <<planIn, parseOut, execVars, engineVars, storeVars>>

\* the agent answers without a plan
ReceiveOutput ==
  /\ ppc = "start"
  /\ planIn.kind = "raw"
  /\ planText' = planIn.text
  /\ ppc' = "text"
  /\ UNCHANGED <<planIn, parseOut, execVars, engineVars, storeVars>>

\* ParsePlan(output) and Engine.parsePlan(output) on the same output
CallParsePlan ==
  /\ ppc = "text"
  /\ parseOut' = [set |-> TRUE,
                  typed |-> TypesParsePlan(planText),
                  engine |-> EngineParsePlan(PriorPlan, planText)]
  /\ ppc' = "parsed"
  /\ UNCHANGED <<planIn, planText, execVars, engineVars, storeVars>>

NextPlan == SerializePlan \/ ReceiveOutput \/ CallParsePlan

InitPlan ==
  /\ maxRetries = 0
  /\ maxWorkers = MaxWorkersBound
  /\ maxLoops = 0
  /\ sessMode = "nocurrent"
  /\ EngineNew(<<>>)
  /\ ExecIdle
  /\ StoreNew
  /\ planIn \in {[kind |-> "plan", plan |-> p, wrap |-> w] :
                   p \in Plans, w \in Wrappings}
                \cup {[kind |-> "raw", text |-> t] : t \in RawTexts}
  /\ planText = <<>>
  /\ parseOut = [set |-> FALSE]
  /\ ppc = "start"

SpecPlan == InitPlan /\ [][NextPlan]_vars

\* ------------------------------------------------------------------------
\* C30 (plan round trip).  A plan that was marshalled to JSON, bare or in a
\* fenced code block with prose around it, is parsed back by ParsePlan to a
\* plan equal to the one marshalled; an output that holds no JSON document
\* makes ParsePlan return an error and leaves Engine.plan as it was.
\* ------------------------------------------------------------------------
C30_PlanRoundTrip ==
  ppc = "parsed" =>
    /\ planIn.kind = "plan" =>
         /\ ~parseOut.typed.err
         /\ parseOut.typed.plan = planIn.plan
    /\ planIn.kind = "raw" =>
         /\ parseOut.typed.err
         /\ parseOut.engine = PriorPlan

\* ------------------------------------------------------------------------
\* Workflows whose steps all declare an output name: the plan slot, a gate
\* with an output of its own, and a fan-out step writing "final".
\* ------------------------------------------------------------------------
OutputWorkflows ==
  LET menu == { Step("planner", "plan.json", FALSE, "", ""),
                Step("plan_validator", "review", FALSE, "goto:planner", ""),
                Step("implementer", "final", TRUE, "", "") }
  IN UNION { [1..n -> menu] : n \in 1..MaxSteps }

InitOutputs ==
  /\ maxRetries = 0
  /\ maxWorkers = MaxWorkersBound
  /\ maxLoops \in 1..MaxLoopsBound
  /\ sessMode = "current"
  /\ \E ss \in OutputWorkflows : EngineNew(ss)
  /\ ExecIdle
  /\ StoreNew
  /\ ParseIdle

SpecOutputs == InitOutputs /\ [][Next]_vars

\* executeStep has just returned: the step at currentStep produced the last
\* of the step results
StepExecuted == pc = "exec" /\ pc' = "save"

\* ------------------------------------------------------------------------
\* C31 (outputs follow success).  When executeStep returns, the outputs map
\* holds the step's raw output under the step's output name if the step
\* declares a name and succeeded, and is otherwise unchanged; all other
\* names keep their values; a failed step leaves outputs and plan as they
\* were; a gate step run as a single task whose agent succeeded with a
\* rejected verdict is a failed step.
\* ------------------------------------------------------------------------
C31_OutputStoredIffSuccess ==
  [][StepExecuted =>
       LET sr == stepResults'[Len(stepResults')]
           name == CurStep.Output
       IN /\ (name # "" /\ sr.Success)
               => /\ DOMAIN outputs' = DOMAIN outputs \cup {name}
                  /\ outputs'[name] = sr.Output
                  /\ \A n \in DOMAIN outputs \ {name} : outputs'[n] = outputs[n]
          /\ ~(name # "" /\ sr.Success) => outputs' = outputs
          /\ ~sr.Success => plan' = plan
          /\ (/\ CurStep.Role \in GateRoles
              /\ Len(sr.TaskResults) = 1
              /\ ~FanOut(CurStep, plan)
              /\ sr.TaskResults[1].Success
              /\ ~CheckVerdict(sr.Output))
               => ~sr.Success]_vars

\* the planner's output has been stored, and the gate after it, whose agent
\* succeeded with a rejection, has stored nothing under its own name
C31_Witness ==
  /\ pc = "save"
  /\ "plan.json" \in DOMAIN outputs
  /\ "review" \notin DOMAIN outputs
  /\ stepResults[Len(stepResults)].Role = "plan_validator"
  /\ ~stepResults[Len(stepResults)].Success
  /\ Len(stepResults[Len(stepResults)].TaskResults) = 1
  /\ stepResults[Len(stepResults)].TaskResults[1].Success

\* the output holds a JSON document of the shape of a plan: an object with
\* a tasks list
HoldsPlanJSON(output) ==
  LET u == Unmarshal(ExtractJSON(output))
  IN u.ok /\ ~u.v.nil /\ u.v.hasTasks

\* ------------------------------------------------------------------------
\* C32 (an output without a plan keeps the plan).  When a successful step
\* writes the plan output slot and its output holds no JSON document of the
\* shape of a plan, Engine.plan after the step is what it was before, the
\* raw output is stored under plan.json, and the step result is successful.
\* ------------------------------------------------------------------------
C32_UnparsedOutputKeepsPlan ==
  [][(/\ StepExecuted
      /\ CurStep.Output = "plan.json"
      /\ stepResults'[Len(stepResults')].Success
      /\ ~HoldsPlanJSON(stepResults'[Len(stepResults')].Output))
       => /\ plan' = plan
          /\ "plan.json" \in DOMAIN outputs'
          /\ outputs'["plan.json"] = stepResults'[Len(stepResults')].Output]_vars

\* ========================================================================
\* A fan-out step with the executor running its batch: executePerTask
\* (workflow.go lines 224-278) builds the batch from Engine.plan, calls
\* RunParallelTasks and folds the results into the step result.
\* ========================================================================
\* the tasks list of a parsed plan: entries with an id, entries without one
\* ("id" absent: the type assertion yields ""), entries whose id is a
\* generated default, and entries that are not JSON objects
PlanEntries ==
  {Entry("t1"), Entry(""), Entry("task1"), Entry("task2"),
   [obj |-> FALSE, id |-> ""]}

FanOutPlans ==
  {PlanObj(TRUE, es) : es \in UNION {[1..k -> PlanEntries] : k \in 1..MaxTasks}}

\* the engine, with a plan restored or parsed before, has entered
\* executeStep for its fan-out step
InitFanOut ==
  /\ maxRetries \in 0..MaxRetriesBound
  /\ maxWorkers \in 0..MaxWorkersBound
  /\ tasks = <<>>
  /\ taskChan = <<>>
  /\ taskChanClosed = FALSE
  /\ resultChan = <<>>
  /\ resultChanClosed = FALSE
  /\ workers = EmptyBag
  /\ dpc = "build"
  /\ nextEnq = 1
  /\ resultMap = EmptyMap
  /\ results = <<>>
  /\ ctxCancelled = FALSE
  /\ invocations = <<>>
  /\ completed = <<>>
  /\ ret = <<>>
  /\ steps = <<Step("implementer", "final", TRUE, "", "")>>
  /\ roleStep = RoleStep(steps)
  /\ outputs = RunStart([n \in {} |-> <<>>])
  /\ plan \in FanOutPlans
  /\ sessMode = "nocurrent"
  /\ maxLoops = 1
  /\ currentStep = 0
  /\ visits = Visit(ZeroVisits(steps), 0)
  /\ stepResults = <<>>
  /\ pc = "exec"
  /\ runResult = NoResult
  /\ runNo = 1
  /\ resumeAt = 0
  /\ wfState = NoRow
  /\ StoreNew
  /\ ParseIdle

\* lines 225-253: the batch is built and handed to RunParallelTasks
BuildBatch ==
  /\ pc = "exec"
  /\ dpc = "build"
  /\ FanOut(CurStep, plan)
  /\ PlanTasksOK(plan)
  /\ tasks' = BuildExecTasks(plan.tasks, 1, CurStep.Role)
  /\ invocations' = [i \in 1..Len(tasks') |-> 0]
  /\ ret' = [i \in 1..Len(tasks') |-> NoRet]
  /\ dpc' = "start"
  /\ UNCHANGED <<maxRetries, maxWorkers, taskChan, taskChanClosed, resultChan,
                 resultChanClosed, workers, nextEnq, resultMap, results,
                 ctxCancelled, completed, engineVars, storeVars, parseVars>>

\* lines 253-277 and executeStep, lines 178-193: RunParallelTasks has
\* returned, the step result is built
FanOutReturn ==
  /\ pc = "exec"
  /\ dpc = "returned"
  /\ Finish(ExecutePerTask(currentStep, CurStep, results))

NextFanOut ==
  \/ BuildBatch
  \/ FanOutReturn
  \/ NextExec

SpecFanOut == InitFanOut /\ [][NextFanOut]_vars

\* ------------------------------------------------------------------------
\* C33 (distinct ids in a fan-out batch).  The batch executePerTask builds
\* has pairwise-distinct task ids, and when RunParallelTasks has returned,
\* every slot of its results holds what RunSingleTask returned for the task
\* of that slot.
\* ------------------------------------------------------------------------
C33_FanOutBatchDistinct ==
  /\ dpc # "build" => DistinctIDs(tasks)
  /\ (dpc = "returned" /\ maxWorkers >= 1)
       => \A i \in 1..Len(tasks) :
            results[i] = WrapReturn(ret[i].result, ret[i].err, tasks[i])

\* ------------------------------------------------------------------------
\* C34 (one task per plan entry).  When a fan-out step over a plan with
\* n >= 1 task entries has been executed, its batch held n tasks, the i-th
\* built from the i-th entry, every one of them was run by a worker (given
\* maxWorkers >= 1), the step result carries n task results, and the step
\* succeeded exactly if all of them succeeded.
\* ------------------------------------------------------------------------
C34_FanOutRunsEveryEntry ==
  (pc = "save" /\ dpc = "returned")
    => LET sr == stepResults[Len(stepResults)]
           n == Len(plan.tasks)
       IN /\ Len(tasks) = n
          /\ \A i \in 1..Len(tasks) :
               /\ plan.tasks[i].id # "" => tasks[i].ID = plan.tasks[i].id
               /\ maxWorkers >= 1 => Returned(i)
          /\ Len(sr.TaskResults) = n
          /\ sr.Success <=> \A i \in 1..Len(sr.TaskResults) : sr.TaskResults[i].Success

\* ------------------------------------------------------------------------
\* RunParallelTasks under fair scheduling: every goroutine that can take a
\* step eventually takes one, and every adp.Run call returns.  Cancelling
\* the context is left to the caller and is not forced.
\* ------------------------------------------------------------------------
InitExecLive == InitExec /\ maxWorkers >= 1

ExecProgress ==
  \/ ParStart
  \/ ParEnqueue
  \/ ParClose
  \/ CloserClose
  \/ ParCollect
  \/ ParReturn
  \/ \E wr \in BagToSet(workers) : WorkerRecv(wr)
  \/ \E wr \in BagToSet(workers) : WorkerExit(wr)
  \/ \E wr \in BagToSet(workers) : WorkerRun(wr)
  \/ \E wr \in BagToSet(workers) : WorkerCtxDone(wr)
  \/ \E wr \in BagToSet(workers) : WorkerAdapterReturn(wr)
  \/ \E wr \in BagToSet(workers) : WorkerSend(wr)

SpecExecLive == InitExecLive /\ [][NextExec]_vars /\ WF_vars(ExecProgress)

\* ------------------------------------------------------------------------
\* C35 (no deadlock in RunParallelTasks).  With maxWorkers >= 1 and every
\* runner invocation returning: a worker holding a result can always put it
\* on resultChan, the caller can always put its next task on taskChan, and
\* eventually the call has returned with every worker exited.
\* ------------------------------------------------------------------------
C35_DeadlockFree ==
  /\ [](\A wr \in BagToSet(workers) :
          wr.pc = "send" => Len(resultChan) < Len(tasks))
  /\ []((dpc = "enqueue" /\ nextEnq <= Len(tasks)) => Len(taskChan) < Len(tasks))
  /\ <>(dpc = "returned" /\ \A wr \in BagToSet(workers) : wr.pc = "exited")

\* one worker has run a batch of MaxTasks tasks, one after the other, and
\* the call has returned
C35_Witness ==
  /\ dpc = "returned"
  /\ Len(tasks) = MaxTasks
  /\ maxWorkers = 1
  /\ Len(completed) = MaxTasks
  /\ \A wr \in BagToSet(workers) : wr.pc = "exited"

\* ========================================================================
\* A workflow of one gate step whose agent answers with any text of up to
\* two tokens: checkVerdict as executeSingle applies it (lines 209-212).
\* ========================================================================
GateOutputs ==
  LET toks == {"{\"verdict\":\"approved\"}", "{\"verdict\":\"needs_revision\"}",
               "{\"verdict\":\"unclear\"}", "status: \"failed\"",
               "approved", "passed", "needs_revision", "failed",
               "LGTM", "APPROVED", "FAILED"}
  IN UNION {[1..n -> toks] : n \in 1..2}

InitGate ==
  /\ maxRetries = 0
  /\ maxWorkers = MaxWorkersBound
  /\ maxLoops = 1
  /\ sessMode = "current"
  /\ \E r \in GateRoles : EngineNew(<<Step(r, "review", FALSE, "", "")>>)
  /\ ExecIdle
  /\ StoreNew
  /\ ParseIdle

\* line 175: executeSingle, the agent run ending with output o or failing
ExecGate ==
  /\ pc = "exec"
  /\ ~FanOut(CurStep, plan)
  /\ \E a \in {AdpResult(FALSE, <<>>, "boom")}
             \cup {AdpResult(TRUE, o, "") : o \in GateOutputs} :
       Finish(ExecuteSingle(currentStep, CurStep,
                RunSingleTaskCtx(CurStep.Role, StepTaskID(currentStep), <<a>>,
                                 maxRetries, ctxCancelled)))

NextGate ==
  \/ RunBegin
  \/ LoopEnter
  \/ ExecGate
  \/ SaveStateStep
  \/ StepFailed
  \/ Advance
  \/ RunSucceed

SpecGate == InitGate /\ [][NextGate]_vars

\* ------------------------------------------------------------------------
\* C36 (verdict table).  For a gate step whose agent run succeeded, with
\* key, qa, qr, ba, br saying whether the lower-cased output contains
\* "verdict" in quotes, a quoted approved/passed, a quoted
\* needs_revision/failed, a bare approved/passed, a bare
\* needs_revision/failed: the step succeeds if key and qa; else fails if key
\* and qr; else succeeds if ba; else fails if br; else succeeds.  So it fails
\* only with a rejection token in the output, and approval wins over
\* rejection at the same level.
\* ------------------------------------------------------------------------
C36_VerdictTable ==
  (pc \in {"save", "decide", "done"} /\ stepResults # <<>>
     /\ stepResults[1].TaskResults # <<>> /\ stepResults[1].TaskResults[1].Success)
    => LET lower == ToLower(stepResults[1].Output)
           key == Contains(lower, "\"verdict\"")
           qa == Contains(lower, "\"approved\"") \/ Contains(lower, "\"passed\"")
           qr == Contains(lower, "\"needs_revision\"") \/ Contains(lower, "\"failed\"")
           ba == Contains(lower, "approved") \/ Contains(lower, "passed")
           br == Contains(lower, "needs_revision") \/ Contains(lower, "failed")
           accepts == stepResults[1].Success
       IN /\ (key /\ qa) => accepts
          /\ (key /\ ~qa /\ qr) => ~accepts
          /\ (~(key /\ (qa \/ qr)) /\ ba) => accepts
          /\ (~(key /\ (qa \/ qr)) /\ ~ba /\ br) => ~accepts
          /\ (~(key /\ (qa \/ qr)) /\ ~ba /\ ~br) => accepts
          /\ ~accepts => br

\* a gate has rejected on a quoted rejection next to a "verdict" key,
\* although a bare approval token occurs in the same output
C36_Witness ==
  /\ pc = "done"
  /\ stepResults # <<>>
  /\ stepResults[1].TaskResults # <<>>
  /\ stepResults[1].TaskResults[1].Success
  /\ ~stepResults[1].Success
  /\ Contains(ToLower(stepResults[1].Output), "approved")
  /\ Contains(ToLower(stepResults[1].Output), "\"verdict\"")

\* ========================================================================
\* The current-session pointer of session.Manager
\* ========================================================================
\* the rows of every table
StoreRows == <<sessions, messages, toolInvocations, workflowStates>>

\* the step adds exactly one row to the child table, of session sid, and
\* changes no other table
WritesTo(tbl, tblAfter, sid) ==
  /\ tbl \subseteq tblAfter
  /\ Cardinality(tblAfter \ tbl) = 1
  /\ \A r \in tblAfter \ tbl : r.session_id = sid

\* ------------------------------------------------------------------------
\* C37 (current-session pointer).  CompleteSession and FailSession applied
\* to the current session leave no current session; InterruptSession leaves
\* the pointer as it was.  With an empty session ID, AddMessage,
\* RecordToolInvocation and SaveWorkflowState change no table while no
\* session is current, and while one is current each writes one row of
\* exactly that session.
\* ------------------------------------------------------------------------
C37_CurrentSessionPointer ==
  [][ /\ \A sid \in 0..MaxSessions :
           (CompleteSession(sid) /\ Resolve(sid) = currentSessionID)
             => currentSessionID' = 0
      /\ (FailSessionUpdateStatus /\ mpc.sid = currentSessionID)
             => currentSessionID' = 0
      /\ \A sid \in 0..MaxSessions :
           InterruptSession(sid) => currentSessionID' = currentSessionID
      /\ (currentSessionID = 0 /\
            \/ AddMessage(0, "hello")
            \/ RecordToolInvocation(0)
            \/ \E cp \in Checkpoints : SaveWorkflowState(0, cp))
           => StoreRows' = StoreRows
      /\ (currentSessionID # 0 /\ AddMessage(0, "hello"))
           => /\ WritesTo(messages, messages', currentSessionID)
              /\ <<sessions, toolInvocations, workflowStates>>'
                   = <<sessions, toolInvocations, workflowStates>>
      /\ (currentSessionID # 0 /\ RecordToolInvocation(0))
           => /\ WritesTo(toolInvocations, toolInvocations', currentSessionID)
              /\ <<sessions, messages, workflowStates>>'
                   = <<sessions, messages, workflowStates>>
      /\ \A cp \in Checkpoints :
           (currentSessionID # 0 /\ SaveWorkflowState(0, cp))
             => /\ \E r \in workflowStates' :
                     /\ r.session_id = currentSessionID
                     /\ r.current_step = cp.CurrentStep
                /\ \A r \in workflowStates' \ workflowStates :
                     r.session_id = currentSessionID
                /\ <<sessions, messages, toolInvocations>>'
                     = <<sessions, messages, toolInvocations>>
    ]_vars

\* ------------------------------------------------------------------------
\* C38 (no checkpoint without a current session).  When the engine has no
\* manager, or the manager has no current session, no WorkflowState row
\* exists at any point of Run; and in either mode the saveState call changes
\* nothing of the run itself (results, outputs, plan, position, visit
\* counts), the loop going on to its decision.
\* ------------------------------------------------------------------------
C38_NoSessionNoCheckpoint ==
  [][ /\ sessMode = "nocurrent" => (wfState = NoRow /\ wfState' = NoRow)
      /\ pc = "save"
           => /\ pc' = "decide"
              /\ <<stepResults, runResult, outputs, plan, currentStep, visits>>'
                   = <<stepResults, runResult, outputs, plan, currentStep, visits>>
    ]_vars

\* a run of two steps or more has succeeded without a current session
C38_Witness ==
  /\ sessMode = "nocurrent"
  /\ pc = "done"
  /\ runResult.Success
  /\ Len(stepResults) >= 2
  /\ wfState = NoRow

\* ========================================================================
\* RunParallelTasks on an executor built with any maxWorkers, zero and
\* negative included (NewExecutor stores the parameter as given)
\* ========================================================================
InitExecAny ==
  /\ maxRetries \in 0..MaxRetriesBound
  /\ maxWorkers \in (0 - 1)..MaxWorkersBound
  /\ tasks \in Batches
  /\ taskChan = <<>>
  /\ taskChanClosed = FALSE
  /\ resultChan = <<>>
  /\ resultChanClosed = FALSE
  /\ workers = EmptyBag
  /\ dpc = "start"
  /\ nextEnq = 1
  /\ resultMap = EmptyMap
  /\ results = <<>>
  /\ ctxCancelled = FALSE
  /\ invocations = [i \in 1..Len(tasks) |-> 0]
  /\ completed = <<>>
  /\ ret = [i \in 1..Len(tasks) |-> NoRet]
  /\ steps = <<>>
  /\ roleStep = [r \in {} |-> 0]
  /\ outputs = [n \in {} |-> <<>>]
  /\ plan = [nil |-> TRUE, hasTasks |-> FALSE, tasks |-> <<>>]
  /\ sessMode = "nocurrent"
  /\ maxLoops = 0
  /\ currentStep = 0
  /\ visits = <<>>
  /\ stepResults = <<>>
  /\ pc = "idle"
  /\ runResult = [set |-> FALSE]
  /\ runNo = 1
  /\ resumeAt = 0
  /\ wfState = [present |-> FALSE]
  /\ StoreNew
  /\ ParseIdle

SpecExecAny == InitExecAny /\ [][NextExec]_vars /\ WF_vars(ExecProgress)

\* ------------------------------------------------------------------------
\* C39 (no worker pool).  A call with a non-empty batch and maxWorkers <= 0
\* starts no worker and invokes no agent; no send to taskChan blocks; the
\* call returns, and what it returns is one failed "result not found"
\* result per input task, in input order.
\* ------------------------------------------------------------------------
C39_NoWorkersAllNotFound ==
  /\ []((maxWorkers <= 0 /\ tasks # <<>>)
         => /\ workers = EmptyBag
            /\ \A i \in DOMAIN invocations : invocations[i] = 0
            /\ resultChan = <<>>
            /\ (dpc = "enqueue" /\ nextEnq <= Len(tasks))
                 => Len(taskChan) < Len(tasks)
            /\ dpc = "returned"
                 => /\ Len(results) = Len(tasks)
                    /\ \A i \in DOMAIN tasks :
                         results[i] = [TaskID |-> tasks[i].ID, Role |-> tasks[i].Role,
                                       Agent |-> "", Success |-> FALSE,
                                       Output |-> <<>>,
                                       Error |-> "result not found",
                                       Retries |-> 0])
  /\ (maxWorkers <= 0 /\ tasks # <<>>) ~> (dpc = "returned")

\* a full batch has come back from an executor with a negative maxWorkers
C39_Witness ==
  /\ maxWorkers < 0
  /\ Len(tasks) = MaxTasks
  /\ dpc = "returned"
  /\ Len(results) = MaxTasks
  /\ \A i \in DOMAIN results : results[i].Error = "result not found"

\* ========================================================================
\* The accounting of Result
\* ========================================================================
\* the run has ended on the loop guard (lines 120-129)
GuardEnded ==
  runResult.Error = MaxLoopsError(maxLoops, currentStep)

\* step executions of the run: every visit runs executeStep but the one on
\* which the guard tripped
Executions ==
  LET RECURSIVE Sum(_)
      Sum(S) == IF S = {} THEN 0
                ELSE LET i == CHOOSE x \in S : TRUE
                     IN visits[i] + Sum(S \ {i})
  IN Sum(DOMAIN visits) - (IF GuardEnded THEN 1 ELSE 0)

\* ------------------------------------------------------------------------
\* C40 (result accounting).  In the Result of a run of a non-empty workflow
\* StepsCompleted is the length of StepResults and the number of step
\* executions of the run, failed and repeated ones included, and is at most
\* TotalSteps * maxLoops; when the run ends on a failed step, that step's
\* result is the last of StepResults and Error is its error.
\* ------------------------------------------------------------------------
C40_ResultAccounting ==
  (pc = "done" /\ Len(steps) > 0)
    => /\ runResult.set
       /\ runResult.TotalSteps = Len(steps)
       /\ runResult.StepsCompleted = Len(runResult.StepResults)
       /\ runResult.StepsCompleted = Executions
       /\ runResult.StepsCompleted <= runResult.TotalSteps * maxLoops
       /\ (~runResult.Success /\ ~GuardEnded)
            => /\ runResult.StepResults # <<>>
               /\ LET last == runResult.StepResults[Len(runResult.StepResults)]
                  IN /\ ~last.Success
                     /\ last.StepIndex = currentStep
                     /\ runResult.Error = last.Error

\* a run has failed on a step after more executions than the workflow has
\* steps, an earlier one of them failed
C40_Witness ==
  /\ pc = "done"
  /\ runResult.set
  /\ ~runResult.Success
  /\ ~GuardEnded
  /\ runResult.StepsCompleted > runResult.TotalSteps
  /\ ~runResult.StepResults[1].Success

====
